---- MODULE Spec2Model ----
(***************************************************************************)
(* bnd-winmd: C headers -> WinMD metadata.                                 *)
(*                                                                         *)
(* The model follows generate_from_config (bnd-winmd/src/lib.rs): the      *)
(* partitions are extracted, the type registry is built from them and      *)
(* seeded from external winmd files, duplicates are dropped, the type      *)
(* references are validated and the metadata is emitted; run then writes   *)
(* the bytes to the output file.                                           *)
(*                                                                         *)
(* The C front-end (libclang) and the winmd reader are external: what the  *)
(* front-end reports for a partition's translation unit, and the type      *)
(* definitions an external winmd file holds, are inputs.                   *)
(***************************************************************************)
EXTENDS Integers, Sequences, FiniteSets, TLC

VARIABLES
    cfg,         \* config::Config: what the configuration file holds
    base_dir,    \* the directory generate_from_config resolves paths against
    disk,        \* the file system: the paths that exist, the wrappers written
    clang,       \* the front-end: its index, its open translation units, its calls
    frontend,    \* per partition: what the front-end yields for its translation unit
    winmds,      \* per type_import: the external winmd file on disk
    partitions,  \* Vec<model::Partition> of generate_from_config
    registry,    \* model::TypeRegistry.types
    pc,          \* position in run / generate_from_config
    idx,         \* index of the loop the pipeline is in
    pending,     \* type definitions of the open winmd not yet enumerated
    error,       \* the error run returns, "none" while there is none
    message,     \* the entries of the validation error message
    file,        \* the metadata the emitter produced
    outFile      \* the output file of run

vars == <<cfg, base_dir, disk, clang, frontend, winmds, partitions, registry,
          pc, idx, pending, error, message, file, outFile>>

----------------------------------------------------------------------------
(* Strings that the code compares or takes prefixes of (namespaces) are    *)
(* sequences of character codes, so that str::starts_with and the          *)
(* lexicographic order of str are what they are in Rust.                   *)

\* str < str: lexicographic on the characters, a proper prefix is smaller.
RECURSIVE StrLess(_, _)
StrLess(s, t) ==
    IF t = <<>> THEN FALSE
    ELSE IF s = <<>> THEN TRUE
    ELSE IF Head(s) < Head(t) THEN TRUE
    ELSE IF Head(s) > Head(t) THEN FALSE
    ELSE StrLess(Tail(s), Tail(t))

\* str::starts_with
StartsWith(s, prefix) ==
    /\ Len(prefix) <= Len(s)
    /\ SubSeq(s, 1, Len(prefix)) = prefix

\* The elements of a sequence.
Range(s) == {s[i] : i \in DOMAIN s}

----------------------------------------------------------------------------
(* model::CType                                                            *)

Prim(k) == [kind |-> k]
Void == Prim("Void")
I32 == Prim("I32")
ISize == Prim("ISize")
Ptr(pointee, is_const) == [kind |-> "Ptr", pointee |-> pointee, is_const |-> is_const]
Array(element, len) == [kind |-> "Array", element |-> element, len |-> len]
\* resolved: Option<Box<CType>> is <<>> for None and <<t>> for Some(t)
Named(name, resolved) == [kind |-> "Named", name |-> name, resolved |-> resolved]
FnPtr(return_type, params) ==
    [kind |-> "FnPtr", return_type |-> return_type, params |-> params,
     calling_convention |-> "Cdecl"]

----------------------------------------------------------------------------
(* The front-end's types (clang::Type) as extract.rs inspects them: a      *)
(* record with the TypeKind, the const qualifier and what the accessors    *)
(* that the code calls return.  Option<T> is <<>> or <<t>>, and so is      *)
(* Result<T>: <<>> stands for Err.                                         *)

ClangBuiltin(kind) == [kind |-> kind, is_const |-> FALSE]
ClangInt == ClangBuiltin("Int")
\* The same type, const-qualified.
Const(ty) == [ty EXCEPT !.is_const = TRUE]
ClangPointer(pointee) == [kind |-> "Pointer", is_const |-> FALSE, pointee |-> pointee]
ClangConstantArray(element, size) ==
    [kind |-> "ConstantArray", is_const |-> FALSE, element |-> element, size |-> size]
ClangIncompleteArray(element) ==
    [kind |-> "IncompleteArray", is_const |-> FALSE, element |-> element]
ClangElaborated(inner) == [kind |-> "Elaborated", is_const |-> FALSE, inner |-> inner]
\* A typedef type: the name of its declaration and its canonical type.
ClangTypedef(name, canonical) ==
    [kind |-> "Typedef", is_const |-> FALSE, name |-> name, canonical |-> canonical]
\* A record type: its declaration (a StructDecl or UnionDecl entity).
ClangRecord(decl) == [kind |-> "Record", is_const |-> FALSE, decl |-> decl]
ClangEnum(name) == [kind |-> "Enum", is_const |-> FALSE, name |-> name]
ClangFunctionPrototype(result, args, variadic) ==
    [kind |-> "FunctionPrototype", is_const |-> FALSE, result |-> result,
     args |-> args, variadic |-> variadic]

\* Type::get_canonical_type: the type without typedef and elaboration sugar.
RECURSIVE get_canonical_type(_)
get_canonical_type(ty) ==
    CASE ty.kind = "Elaborated" -> get_canonical_type(ty.inner)
      [] ty.kind = "Typedef" -> get_canonical_type(ty.canonical)
      [] OTHER -> ty

\* The arms of map_clang_type for the arithmetic kinds and void.
BuiltinCType ==
    [Void |-> "Void", Bool |-> "Bool", CharS |-> "I8", SChar |-> "I8",
     CharU |-> "U8", UChar |-> "U8", Short |-> "I16", UShort |-> "U16",
     Int |-> "I32", UInt |-> "U32", Long |-> "I64", ULong |-> "U64",
     LongLong |-> "I64", ULongLong |-> "U64", Float |-> "F32", Double |-> "F64"]

\* `params.push(map_clang_type(at)?)` over a list of mapped arguments: Err as
\* soon as one of them is Err.
AllOk(results) ==
    IF \E i \in DOMAIN results : results[i] = <<>> THEN <<>>
    ELSE <<[i \in DOMAIN results |-> results[i][1]]>>

\* extract::map_clang_type: <<ctype>> for Ok(ctype), <<>> for Err.
RECURSIVE map_clang_type(_)
map_clang_type(ty) ==
    CASE ty.kind \in DOMAIN BuiltinCType -> <<Prim(BuiltinCType[ty.kind])>>
      [] ty.kind = "Pointer" ->
            LET inner == map_clang_type(ty.pointee) IN
            IF inner = <<>> THEN <<>>
            ELSE <<Ptr(inner[1], ty.pointee.is_const)>>
      [] ty.kind = "ConstantArray" ->
            LET inner == map_clang_type(ty.element) IN
            IF inner = <<>> THEN <<>>
            ELSE <<Array(inner[1], ty.size)>>
      [] ty.kind = "IncompleteArray" ->
            LET inner == map_clang_type(ty.element) IN
            IF inner = <<>> THEN <<>>
            ELSE <<Ptr(inner[1], FALSE)>>
      [] ty.kind = "Elaborated" -> map_clang_type(ty.inner)
      [] ty.kind = "Typedef" ->
            IF ty.name \in {"va_list", "__builtin_va_list", "__gnuc_va_list"}
            THEN <<Ptr(Void, FALSE)>>
            ELSE IF ty.name # ""
            THEN <<Named(ty.name, map_clang_type(get_canonical_type(ty)))>>
            ELSE map_clang_type(get_canonical_type(ty))
      [] ty.kind = "Record" ->
            IF ty.decl.name = <<>> THEN <<>>
            ELSE IF ty.decl.name[1] = "__va_list_tag" THEN <<Void>>
            ELSE IF ty.decl.is_definition THEN <<Named(ty.decl.name[1], <<>>)>>
            ELSE <<Void>>
      [] ty.kind = "Enum" ->
            IF ty.name = <<>> THEN <<>> ELSE <<Named(ty.name[1], <<>>)>>
      [] ty.kind = "FunctionPrototype" ->
            LET ret_ctype == map_clang_type(ty.result)
                params == AllOk([i \in DOMAIN ty.args |-> map_clang_type(ty.args[i])])
            IN  IF ret_ctype = <<>> \/ params = <<>> THEN <<>>
                ELSE <<FnPtr(ret_ctype[1], params[1])>>
      [] ty.kind = "FunctionNoPrototype" -> <<FnPtr(Void, <<>>)>>
      [] OTHER -> <<>>

----------------------------------------------------------------------------
(* Machine integers.  A u64 or i64 is its sixteen hexadecimal digits, the  *)
(* least significant first, so that the casts, the negation and the range  *)
(* tests of the code are computed at their real width.                     *)

WordDigits == 16

\* The word of a small natural number.
RECURSIVE WordOf(_, _)
WordOf(n, digits) ==
    IF digits = 0 THEN <<>> ELSE <<n % 16>> \o WordOf(n \div 16, digits - 1)

U64(n) == WordOf(n, WordDigits)

\* The low `digits` hexadecimal digits of a word: `as u32`, `as i32`, ...
Truncate(w, digits) == SubSeq(w, 1, digits)

\* Zero extension of a narrower word to 64 bits.
ZeroExtend(w) == w \o [i \in 1..(WordDigits - Len(w)) |-> 0]

\* The sign bit of a word of any width.
IsNegative(w) == w[Len(w)] >= 8

\* Sign extension of a narrower word to 64 bits.
SignExtend(w) ==
    w \o [i \in 1..(WordDigits - Len(w)) |-> IF IsNegative(w) THEN 15 ELSE 0]

\* The digits of w * factor + carry from the i-th on, then the carry out of
\* the top digit.
RECURSIVE MulAddFrom(_, _, _, _)
MulAddFrom(w, i, factor, carry) ==
    IF i > Len(w) THEN <<carry>>
    ELSE LET t == w[i] * factor + carry
         IN  <<t % 16>> \o MulAddFrom(w, i + 1, factor, t \div 16)

\* w * factor + addend for factor <= 16 and addend < 16: the digits of the
\* result and the carry out of the top digit.
MulAdd(w, factor, addend) ==
    LET r == MulAddFrom(w, 1, factor, addend)
    IN  [word |-> SubSeq(r, 1, Len(w)), carry |-> r[Len(r)]]

\* Wrapping negation of an i64: -(x).
WrappingNeg(w) == MulAdd([i \in 1..Len(w) |-> 15 - w[i]], 1, 1).word

IsZero(w) == \A i \in 1..Len(w) : w[i] = 0

\* w <= i64::MAX as u64
FitsI64(w) == ~IsNegative(w)

\* w <= u32::MAX as u64
FitsU32(w) == \A i \in 9..WordDigits : w[i] = 0

\* The characters of a string.
Chars(s) == [i \in 1..Len(s) |-> SubSeq(s, i, i)]

\* char::to_digit(16)
DigitValue ==
    [c \in {"0", "1", "2", "3", "4", "5", "6", "7", "8", "9", "a", "b", "c", "d",
            "e", "f", "A", "B", "C", "D", "E", "F"} |->
        CASE c = "0" -> 0 [] c = "1" -> 1 [] c = "2" -> 2 [] c = "3" -> 3
          [] c = "4" -> 4 [] c = "5" -> 5 [] c = "6" -> 6 [] c = "7" -> 7
          [] c = "8" -> 8 [] c = "9" -> 9 [] c \in {"a", "A"} -> 10
          [] c \in {"b", "B"} -> 11 [] c \in {"c", "C"} -> 12
          [] c \in {"d", "D"} -> 13 [] c \in {"e", "E"} -> 14
          [] c \in {"f", "F"} -> 15]

\* The loop of u64::from_str_radix over the characters from the i-th on,
\* with the value accumulated so far.
RECURSIVE from_str_radix_digits(_, _, _, _)
from_str_radix_digits(cs, i, radix, acc) ==
    IF i > Len(cs) THEN <<acc>>
    ELSE IF ~(cs[i] \in DOMAIN DigitValue /\ DigitValue[cs[i]] < radix) THEN <<>>
    ELSE LET r == MulAdd(acc, radix, DigitValue[cs[i]])
         IN  IF r.carry # 0 THEN <<>>
             ELSE from_str_radix_digits(cs, i + 1, radix, r.word)

\* u64::from_str_radix(s, radix): <<>> for Err (empty, a character that is
\* no digit of the radix, or a value above u64::MAX), else <<word>>.
u64_from_str_radix(s, radix) ==
    IF s = "" THEN <<>> ELSE from_str_radix_digits(Chars(s), 1, radix, U64(0))

\* <u64 as FromStr>::from_str (a leading `+` is not modelled).
u64_from_str(s) == u64_from_str_radix(s, 10)

----------------------------------------------------------------------------
(* The front-end's entities (clang::Entity): the children of a translation *)
(* unit, with what the accessors that extract.rs calls return.             *)

\* A FieldDecl child of a record.
FieldDecl(name, type) == [kind |-> "FieldDecl", name |-> name, type |-> type]

\* A StructDecl or UnionDecl.  name is get_name(); location is the file of
\* get_location(), <<>> for none.
RecordDecl(kind, name, is_anonymous, is_definition, fields, location) ==
    [kind |-> kind, name |-> name, is_anonymous |-> is_anonymous,
     is_definition |-> is_definition, fields |-> fields, location |-> location]

----------------------------------------------------------------------------
(* config.rs: paths. A path is a string, `/` between its components.       *)

\* Path::is_absolute
is_absolute(path) == Len(path) > 0 /\ SubSeq(path, 1, 1) = "/"

\* Path::join: an absolute path replaces the base.
join(base, path) ==
    IF is_absolute(path) THEN path
    ELSE IF base = "" THEN path
    ELSE IF SubSeq(base, Len(base), Len(base)) = "/" THEN base \o path
    ELSE base \o "/" \o path

\* Path::ends_with: the components of child are the last ones of path.
ends_with(path, child) ==
    \/ child = ""
    \/ path = child
    \/ /\ ~is_absolute(child)
       /\ Len(child) < Len(path)
       /\ SubSeq(path, Len(path) - Len(child) + 1, Len(path)) = child
       /\ SubSeq(path, Len(path) - Len(child), Len(path) - Len(child)) = "/"

\* The mutant of resolve_header: the include paths are tried before base_dir.
resolve_header_include_first(path, base, include_paths, d) ==
    IF is_absolute(path) THEN path
    ELSE LET hits == {i \in DOMAIN include_paths :
                         join(include_paths[i], path) \in d.exists}
         IN IF hits # {}
            THEN join(include_paths[CHOOSE i \in hits : \A j \in hits : i <= j], path)
            ELSE join(base, path)

\* resolve_header: base_dir first, then each include path in order, and
\* base_dir.join(path) when the file is nowhere.
resolve_header(path, base, include_paths, d) ==
    IF is_absolute(path) THEN path
    ELSE IF join(base, path) \in d.exists THEN join(base, path)
    ELSE LET hits == {i \in DOMAIN include_paths :
                         join(include_paths[i], path) \in d.exists}
         IN IF hits # {}
            THEN join(include_paths[CHOOSE i \in hits : \A j \in hits : i <= j], path)
            ELSE join(base, path)

\* PartitionConfig::traverse_files
PartitionConfig_traverse_files(partition) ==
    IF partition.traverse = <<>> THEN partition.headers ELSE partition.traverse

\* extract_partition: `resolved_traverse`.
resolved_traverse(partition, base, include_paths, d) ==
    [i \in DOMAIN PartitionConfig_traverse_files(partition) |->
        resolve_header(PartitionConfig_traverse_files(partition)[i], base,
                       include_paths, d)]

\* std::env::temp_dir()
temp_dir == "/tmp"

\* The text of a namespace with `_` for each `.`: its segments are numbered.
RECURSIVE safe_name(_)
safe_name(namespace) ==
    IF namespace = <<>> THEN ""
    ELSE IF Len(namespace) = 1 THEN ToString(namespace[1])
    ELSE ToString(namespace[1]) \o "_" \o safe_name(Tail(namespace))

\* PartitionConfig::wrapper_header: the header itself when there is one, else
\* a wrapper written to the temporary directory; both `expect` calls panic
\* when the directory or the file cannot be written.
wrapper_header(partition, base, include_paths, d) ==
    IF Len(partition.headers) = 1
    THEN [panic |-> FALSE,
          path |-> resolve_header(partition.headers[1], base, include_paths, d),
          disk |-> d]
    ELSE IF ~d.temp_writable
    THEN [panic |-> TRUE, path |-> "", disk |-> d]
    ELSE LET wrapper_dir == join(temp_dir, "bnd_winmd_wrappers")
             wrapper_path == join(wrapper_dir,
                                  safe_name(partition.namespace) \o "_wrapper.c")
             content == [i \in DOMAIN partition.headers |->
                            resolve_header(partition.headers[i], base,
                                           include_paths, d)]
         IN [panic |-> FALSE,
             path |-> wrapper_path,
             disk |-> [d EXCEPT !.exists = @ \cup {wrapper_dir, wrapper_path},
                                !.wrappers = (wrapper_path :> content) @@ @]]

\* extract_partition: `all_args`, one iteration of `for inc in include_paths`
\* after the other.
RECURSIVE push_include_flags(_, _, _)
push_include_flags(args, include_paths, i) ==
    IF i > Len(include_paths) THEN args
    ELSE LET flag == "-I" \o include_paths[i]
         IN push_include_flags(IF flag \in Range(args) THEN args
                                                       ELSE Append(args, flag),
                               include_paths, i + 1)

\* extract_partition: the arguments of the parser.
all_args(partition, include_paths) ==
    push_include_flags(partition.clang_args, include_paths, 1)

----------------------------------------------------------------------------

\* The mutant of should_emit: every entity that has a location is in scope.
should_emit_everywhere(entity, traverse_files) ==
    entity.location # <<>>

\* should_emit / should_emit_by_location: the file of the entity is one of
\* the traverse files, or ends with one.
should_emit(entity, traverse_files) ==
    /\ entity.location # <<>>
    /\ \E tf \in Range(traverse_files) :
        LET file_path == entity.location[1] IN
        file_path = tf \/ ends_with(file_path, tf)

\* The elements of s that P holds of whose key no earlier such element has.
FirstOfEachKey(s, P(_), Key(_)) ==
    LET keep[i \in 0..Len(s)] ==
            IF i = 0 THEN <<>>
            ELSE IF P(s[i]) /\ \A j \in 1..(i - 1) : P(s[j]) => Key(s[j]) # Key(s[i])
            THEN Append(keep[i - 1], s[i])
            ELSE keep[i - 1]
    IN  keep[Len(s)]

\* clang::sonar::find_structs: the named StructDecl entities that have a
\* child, one per name.  (sonar has no find_unions.)
sonar_find_structs(entities) ==
    FirstOfEachKey(entities,
                   LAMBDA e : e.kind = "StructDecl" /\ e.name # <<>> /\ e.fields # <<>>,
                   LAMBDA e : e.name)

FieldDef(name, ty) ==
    [name |-> name, ty |-> ty, bitfield_width |-> <<>>, bitfield_offset |-> <<>>]

StructDef(name, fields, is_union) ==
    [name |-> name, fields |-> fields, is_union |-> is_union]

\* extract_struct_from_entity: <<>> for Err, else <<[s |-> StructDef,
\* nested |-> the synthetic types of its anonymous fields]>>.
RECURSIVE extract_struct_from_entity(_, _, _)

\* The mutant of try_extract_anonymous_field: the types nested in the unnamed
\* record are dropped.
try_extract_anonymous_field_shallow(field_type, parent_name, field_name) ==
    LET canonical == get_canonical_type(field_type)
        none == [name |-> <<>>, nested |-> <<>>]
    IN  IF canonical.kind # "Record" THEN none
        ELSE IF ~canonical.decl.is_anonymous THEN none
        ELSE LET synthetic_name == parent_name \o "_" \o field_name
                 r == extract_struct_from_entity(canonical.decl, synthetic_name,
                                                 canonical.decl.kind = "UnionDecl")
             IN  IF r = <<>> THEN none
                 ELSE [name |-> <<synthetic_name>>,
                       nested |-> <<r[1].s>>]

\* try_extract_anonymous_field: name is the Option<String> it returns, nested
\* what it appends to nested_types.
try_extract_anonymous_field(field_type, parent_name, field_name) ==
    LET canonical == get_canonical_type(field_type)
        none == [name |-> <<>>, nested |-> <<>>]
    IN  IF canonical.kind # "Record" THEN none
        ELSE IF ~canonical.decl.is_anonymous THEN none
        ELSE LET synthetic_name == parent_name \o "_" \o field_name
                 r == extract_struct_from_entity(canonical.decl, synthetic_name,
                                                 canonical.decl.kind = "UnionDecl")
             IN  IF r = <<>> THEN none
                 ELSE [name |-> <<synthetic_name>>,
                       nested |-> <<r[1].s>> \o r[1].nested]

extract_struct_from_entity(entity, name, is_union) ==
    LET children == entity.fields
        \* the state of the loop after i children: <<>> once a `?` returned
        loop[i \in 0..Len(children)] ==
            IF i = 0 THEN <<[fields |-> <<>>, nested_types |-> <<>>]>>
            ELSE IF loop[i - 1] = <<>> THEN <<>>
            ELSE LET child == children[i]
                     anon == try_extract_anonymous_field(child.type, name, child.name)
                     mapped == map_clang_type(child.type)
                     before == loop[i - 1][1]
                 IN  IF anon.name # <<>>
                     THEN <<[fields |-> Append(before.fields,
                                               FieldDef(child.name,
                                                        Named(anon.name[1], <<>>))),
                             nested_types |-> before.nested_types \o anon.nested]>>
                     ELSE IF mapped = <<>> THEN <<>>
                     ELSE <<[fields |-> Append(before.fields,
                                               FieldDef(child.name, mapped[1])),
                             nested_types |-> before.nested_types]>>
        done == loop[Len(children)]
    IN  IF done = <<>> THEN <<>>
        ELSE <<[s |-> StructDef(name, done[1].fields, is_union),
                nested |-> done[1].nested_types]>>

\* collect_structs: the sonar pass, then the StructDecl/UnionDecl entities
\* that it did not yield.
collect_structs(entities, traverse_files) ==
    LET found == SelectSeq(sonar_find_structs(entities),
                           LAMBDA e : should_emit(e, traverse_files))
        \* [structs, seen] after i declarations of the sonar pass
        primary[i \in 0..Len(found)] ==
            IF i = 0 THEN [structs |-> <<>>, seen |-> {}]
            ELSE LET r == extract_struct_from_entity(found[i], found[i].name[1], FALSE)
                     before == primary[i - 1]
                 IN  IF r = <<>>
                     THEN [before EXCEPT !.seen = @ \cup {found[i].name[1]}]
                     ELSE [structs |-> before.structs \o r[1].nested \o <<r[1].s>>,
                           seen |-> before.seen \cup {found[i].name[1]}
                                    \cup {ns.name : ns \in Range(r[1].nested)}]
        supplemental[i \in 0..Len(entities)] ==
            IF i = 0 THEN primary[Len(found)]
            ELSE LET entity == entities[i]
                     before == supplemental[i - 1]
                 IN  IF \/ entity.kind \notin {"StructDecl", "UnionDecl"}
                        \/ ~should_emit(entity, traverse_files)
                        \/ entity.name = <<>>
                     THEN before
                     ELSE IF \/ entity.name[1] = ""
                             \/ entity.name[1] \in before.seen
                             \/ ~entity.is_definition
                     THEN before
                     ELSE LET r == extract_struct_from_entity(
                                       entity, entity.name[1], entity.kind = "UnionDecl")
                          IN  IF r = <<>>
                              THEN [before EXCEPT !.seen = @ \cup {entity.name[1]}]
                              ELSE [structs |-> before.structs \o r[1].nested
                                                \o <<r[1].s>>,
                                    seen |-> before.seen \cup {entity.name[1]}
                                             \cup {ns.name : ns \in Range(r[1].nested)}]
    IN  supplemental[Len(entities)].structs

----------------------------------------------------------------------------
(* extract: enums, functions and typedefs                                  *)

\* An EnumConstantDecl child: get_enum_constant_value() is (signed, unsigned).
EnumConstantDecl(name, signed, unsigned) ==
    [kind |-> "EnumConstantDecl", name |-> name, signed |-> signed,
     unsigned |-> unsigned]

\* An EnumDecl: underlying is get_enum_underlying_type().
EnumDecl(name, is_anonymous, underlying, constants, location) ==
    [kind |-> "EnumDecl", name |-> name, is_anonymous |-> is_anonymous,
     underlying |-> underlying, constants |-> constants, location |-> location]

\* A FunctionDecl: result and args are those of its function type, args with
\* the names of get_arguments().
FunctionDecl(name, is_variadic, result, args, location) ==
    [kind |-> "FunctionDecl", name |-> name, is_variadic |-> is_variadic,
     result |-> result, args |-> args, location |-> location]

\* A TypedefDecl: underlying is get_typedef_underlying_type().
TypedefDecl(name, underlying, location) ==
    [kind |-> "TypedefDecl", name |-> name, underlying |-> underlying,
     location |-> location]

\* str::contains
StrContains(s, sub) ==
    \E i \in 1..(Len(s) - Len(sub) + 1) : SubSeq(s, i, i + Len(sub) - 1) = sub

\* clang::sonar::find_enums: the named EnumDecl entities that have a child,
\* one per name.
sonar_find_enums(entities) ==
    FirstOfEachKey(entities,
                   LAMBDA e : e.kind = "EnumDecl" /\ e.name # <<>> /\ e.constants # <<>>,
                   LAMBDA e : e.name)

\* clang::sonar::find_functions: the named FunctionDecl entities, one per name.
sonar_find_functions(entities) ==
    FirstOfEachKey(entities,
                   LAMBDA e : e.kind = "FunctionDecl" /\ e.name # <<>>,
                   LAMBDA e : e.name)

EnumVariant(name, signed_value, unsigned_value) ==
    [name |-> name, signed_value |-> signed_value, unsigned_value |-> unsigned_value]

\* Result::unwrap_or / Option::unwrap_or
unwrap_or(result, default) == IF result = <<>> THEN default ELSE result[1]

\* extract_enum: <<>> for Err.
extract_enum(entity) ==
    IF entity.underlying = <<>> THEN <<>>
    ELSE <<[name |-> entity.name[1],
            underlying_type |-> unwrap_or(map_clang_type(entity.underlying[1]), I32),
            variants |-> [i \in DOMAIN entity.constants |->
                            EnumVariant(entity.constants[i].name,
                                        entity.constants[i].signed,
                                        entity.constants[i].unsigned)]]>>

\* model::ConstantValue
Signed(v) == [kind |-> "Signed", v |-> v]
Unsigned(v) == [kind |-> "Unsigned", v |-> v]
Float(v) == [kind |-> "Float", v |-> v]

ConstantDef(name, value) == [name |-> name, value |-> value]

\* The constants that collect_enums makes of the variants of an anonymous enum.
AnonymousEnumConstants(en) ==
    [i \in DOMAIN en.variants |->
        ConstantDef(en.variants[i].name,
                    IF IsNegative(en.variants[i].signed_value)
                    THEN Signed(en.variants[i].signed_value)
                    ELSE Unsigned(en.variants[i].unsigned_value))]

\* collect_enums: (enums, anon_constants).
collect_enums(entities, traverse_files) ==
    LET found == SelectSeq(sonar_find_enums(entities),
                           LAMBDA e : should_emit(e, traverse_files))
        anonymous(e) == e.is_anonymous \/ StrContains(e.name[1], "(unnamed")
        loop[i \in 0..Len(found)] ==
            IF i = 0 THEN [enums |-> <<>>, anon_constants |-> <<>>]
            ELSE LET en == extract_enum(found[i])
                     before == loop[i - 1]
                 IN  IF en = <<>> THEN before
                     ELSE IF anonymous(found[i])
                     THEN [before EXCEPT
                            !.anon_constants = @ \o AnonymousEnumConstants(en[1])]
                     ELSE [before EXCEPT !.enums = Append(@, en[1])]
    IN  loop[Len(found)]

ParamDef(name, ty) == [name |-> name, ty |-> ty]

\* extract_function (it never fails on a FunctionDecl).
extract_function(entity) ==
    [name |-> entity.name[1],
     return_type |-> unwrap_or(map_clang_type(entity.result), Void),
     params |->
        [i \in DOMAIN entity.args |->
            LET ty == unwrap_or(map_clang_type(entity.args[i].type), Void) IN
            ParamDef(unwrap_or(entity.args[i].name, "param" \o ToString(i - 1)),
                     IF ty.kind = "Array" THEN Ptr(ty.element, FALSE) ELSE ty)],
     calling_convention |-> "Cdecl"]

\* collect_functions: variadic functions are skipped, a name is kept once.
collect_functions(entities, traverse_files) ==
    LET found == SelectSeq(sonar_find_functions(entities),
                           LAMBDA e : should_emit(e, traverse_files) /\ ~e.is_variadic)
        extracted == [i \in DOMAIN found |-> extract_function(found[i])]
    IN  FirstOfEachKey(extracted, LAMBDA f : TRUE, LAMBDA f : f.name)

\* Type::get_display_name, as far as is_struct_passthrough looks at it.
RECURSIVE get_display_name(_)
get_display_name(ty) ==
    CASE ty.kind = "Elaborated" -> get_display_name(ty.inner)
      [] ty.kind = "Record" ->
            (IF ty.decl.kind = "UnionDecl" THEN "union " ELSE "struct ")
            \o unwrap_or(ty.decl.name, "")
      [] ty.kind = "Enum" -> "enum " \o unwrap_or(ty.name, "")
      [] ty.kind = "Pointer" -> get_display_name(ty.pointee) \o " *"
      [] ty.kind = "Typedef" -> ty.name
      [] OTHER -> ty.kind

is_struct_passthrough(underlying, typedef_name) ==
    LET display == get_display_name(underlying) IN
    \E prefix \in {"struct ", "enum ", "union "} :
        /\ Len(prefix) <= Len(display)
        /\ SubSeq(display, 1, Len(prefix)) = prefix
        /\ SubSeq(display, Len(prefix) + 1, Len(display)) = typedef_name

is_primitive_name(name) ==
    name \in {"bool", "i8", "u8", "i16", "u16", "i32", "u32", "i64", "u64", "f32",
              "f64", "isize", "usize"}

\* collect_typedefs: the first TypedefDecl of each name, unless it is a
\* pass-through or shadows a primitive.
collect_typedefs(entities, traverse_files) ==
    LET found == FirstOfEachKey(entities,
                    LAMBDA e : /\ e.kind = "TypedefDecl"
                               /\ should_emit(e, traverse_files)
                               /\ e.name # <<>>
                               /\ e.name # <<"">>,
                    LAMBDA e : e.name)
        kept == SelectSeq(found,
                    LAMBDA e : /\ e.underlying # <<>>
                               /\ ~is_struct_passthrough(e.underlying[1], e.name[1])
                               /\ ~is_primitive_name(e.name[1]))
    IN  [i \in DOMAIN kept |->
            [name |-> kept[i].name[1],
             underlying_type |-> unwrap_or(map_clang_type(kept[i].underlying[1]), Void)]]

----------------------------------------------------------------------------
(* extract: #define constants                                              *)

\* A MacroDefinition: tokens are the spellings of the tokens of its range,
\* the name of the macro first.
MacroDefinition(name, tokens, location) ==
    [kind |-> "MacroDefinition", name |-> name, tokens |-> tokens,
     location |-> location]

\* The tokens without the trailing "#" that clang sometimes appends.
StripHash(tokens) ==
    IF tokens # <<>> /\ tokens[Len(tokens)] = "#"
    THEN SubSeq(tokens, 1, Len(tokens) - 1) ELSE tokens

\* `let (negated, number) = ..`: <<>> when the macro is not one literal,
\* optionally negated.
NegatedNumber(tokens) ==
    IF Len(tokens) = 2 THEN <<[negated |-> FALSE, number |-> tokens[2]]>>
    ELSE IF Len(tokens) = 3 /\ tokens[2] = "-"
    THEN <<[negated |-> TRUE, number |-> tokens[3]]>>
    ELSE <<>>

\* <f64 as FromStr>::from_str accepts the token: decimal digits with at most
\* one point (exponents, inf and nan are not modelled).
f64_from_str(s) ==
    LET cs == Chars(s) IN
    /\ \A i \in DOMAIN cs : cs[i] \in {"0", "1", "2", "3", "4", "5", "6", "7", "8", "9", "."}
    /\ \E i \in DOMAIN cs : cs[i] # "."
    /\ Cardinality({i \in DOMAIN cs : cs[i] = "."}) <= 1

\* The ConstantValue that collect_constants makes of (negated, val).
IntegerConstant(negated, val) ==
    IF negated THEN Signed(WrappingNeg(val))
    ELSE IF FitsI64(val) THEN Signed(val)
    ELSE Unsigned(val)

\* clang::sonar::find_definitions: the macros that are one literal which
\* u64::from_str or f64::from_str parses, with their DefinitionValue.
sonar_find_definitions(entities) ==
    LET macros == SelectSeq(entities, LAMBDA e : e.kind = "MacroDefinition")
        value(e) ==
            LET nn == NegatedNumber(StripHash(e.tokens)) IN
            IF nn = <<>> THEN <<>>
            ELSE IF u64_from_str(nn[1].number) # <<>>
            THEN <<[kind |-> "Integer", negated |-> nn[1].negated,
                    val |-> u64_from_str(nn[1].number)[1]]>>
            ELSE IF f64_from_str(nn[1].number)
            THEN <<[kind |-> "Real", negated |-> nn[1].negated,
                    val |-> nn[1].number]>>
            ELSE <<>>
        defined == SelectSeq(macros, LAMBDA e : value(e) # <<>>)
    IN  [i \in DOMAIN defined |->
            [name |-> defined[i].tokens[1], value |-> value(defined[i])[1],
             entity |-> defined[i]]]

\* str::trim_end_matches(['u', 'U', 'l', 'L'])
RECURSIVE TrimSuffix(_)
TrimSuffix(s) ==
    IF Len(s) > 0 /\ SubSeq(s, Len(s), Len(s)) \in {"u", "U", "l", "L"}
    THEN TrimSuffix(SubSeq(s, 1, Len(s) - 1))
    ELSE s

\* parse_hex_or_suffixed_int: <<>> for None.
parse_hex_or_suffixed_int(str) ==
    LET s == TrimSuffix(str)
        prefix(n) == IF Len(s) >= n THEN SubSeq(s, 1, n) ELSE ""
        rest(n) == SubSeq(s, n + 1, Len(s))
    IN  IF prefix(2) \in {"0x", "0X"} THEN u64_from_str_radix(rest(2), 16)
        ELSE IF prefix(1) = "0"
        THEN IF rest(1) = "" THEN <<U64(0)>>
             ELSE IF \A c \in Range(Chars(rest(1))) :
                        c \in {"0", "1", "2", "3", "4", "5", "6", "7", "8", "9"}
             THEN u64_from_str_radix(rest(1), 8)
             ELSE <<>>
        ELSE u64_from_str_radix(s, 10)

\* collect_constants: what sonar evaluates, then the other macros that are
\* one literal which parse_hex_or_suffixed_int parses.
collect_constants(entities, traverse_files) ==
    LET defs == SelectSeq(sonar_find_definitions(entities),
                          LAMBDA d : should_emit(d.entity, traverse_files))
        primary ==
            [i \in DOMAIN defs |->
                ConstantDef(defs[i].name,
                            IF defs[i].value.kind = "Integer"
                            THEN IntegerConstant(defs[i].value.negated, defs[i].value.val)
                            ELSE Float([negated |-> defs[i].value.negated,
                                        text |-> defs[i].value.val]))]
        supplemental[i \in 0..Len(entities)] ==
            IF i = 0 THEN [constants |-> primary,
                           seen |-> {defs[j].name : j \in DOMAIN defs}]
            ELSE LET entity == entities[i]
                     before == supplemental[i - 1]
                     nn == NegatedNumber(StripHash(entity.tokens))
                     val == parse_hex_or_suffixed_int(nn[1].number)
                 IN  IF \/ entity.kind # "MacroDefinition"
                        \/ ~should_emit(entity, traverse_files)
                        \/ entity.name = <<>>
                     THEN before
                     ELSE IF entity.name[1] = "" \/ entity.name[1] \in before.seen
                     THEN before
                     ELSE IF nn = <<>> THEN before
                     ELSE IF val = <<>> THEN before
                     ELSE [constants |->
                              Append(before.constants,
                                     ConstantDef(entity.name[1],
                                                 IntegerConstant(nn[1].negated, val[1]))),
                           seen |-> before.seen \cup {entity.name[1]}]
    IN  supplemental[Len(entities)].constants

----------------------------------------------------------------------------
(* extract::extract_partition                                              *)

\* What extract_partition collects from the entities of a parsed
\* translation unit, kept with the entities themselves.
Collected(entities, traverse_files) ==
    [parse_ok |-> TRUE,
     entities |-> entities,
     structs |-> collect_structs(entities, traverse_files),
     enums |-> collect_enums(entities, traverse_files).enums,
     functions |-> collect_functions(entities, traverse_files),
     typedefs |-> collect_typedefs(entities, traverse_files),
     constants |-> collect_constants(entities, traverse_files)
                   \o collect_enums(entities, traverse_files).anon_constants]

----------------------------------------------------------------------------
(* model::TypeRegistry: types is a map name -> namespace                   *)

EmptyRegistry == [n \in {} |-> <<>>]

\* HashMap::insert: a later insert replaces the entry.
register(reg, name, namespace) ==
    [n \in DOMAIN reg \cup {name} |-> IF n = name THEN namespace ELSE reg[n]]

contains(reg, name) == name \in DOMAIN reg

namespace_for(reg, name, default_namespace) ==
    IF name \in DOMAIN reg THEN reg[name] ELSE default_namespace

----------------------------------------------------------------------------
(* extract::build_type_registry                                            *)

\* namespace_overrides.get(name).unwrap_or(&partition.namespace)
OverrideOr(overrides, name, namespace) ==
    IF name \in DOMAIN overrides THEN overrides[name] ELSE namespace

\* for s in &partition.structs / for e in &partition.enums: register, whatever
\* is there already.
RECURSIVE RegisterAlways(_, _, _, _)
RegisterAlways(reg, decls, namespace, overrides) ==
    IF decls = <<>> THEN reg
    ELSE RegisterAlways(
            register(reg, Head(decls).name,
                     OverrideOr(overrides, Head(decls).name, namespace)),
            Tail(decls), namespace, overrides)

\* The mutant of RegisterTypedefs: typedefs registered like structs.
RECURSIVE RegisterTypedefsOverwriting(_, _, _, _)
RegisterTypedefsOverwriting(reg, decls, namespace, overrides) ==
    IF decls = <<>> THEN reg
    ELSE RegisterTypedefsOverwriting(
            register(reg, Head(decls).name,
                     OverrideOr(overrides, Head(decls).name, namespace)),
            Tail(decls), namespace, overrides)

\* for td in &partition.typedefs: skip a name that is already registered.
RECURSIVE RegisterTypedefs(_, _, _, _)
RegisterTypedefs(reg, decls, namespace, overrides) ==
    IF decls = <<>> THEN reg
    ELSE RegisterTypedefs(
            IF contains(reg, Head(decls).name) THEN reg
            ELSE register(reg, Head(decls).name,
                          OverrideOr(overrides, Head(decls).name, namespace)),
            Tail(decls), namespace, overrides)

\* The registry after the structs and the enums of one partition.
RegisterStructsEnums(reg, partition, overrides) ==
    RegisterAlways(
        RegisterAlways(reg, partition.structs, partition.namespace, overrides),
        partition.enums, partition.namespace, overrides)

\* One iteration of `for partition in partitions`.
RegisterPartition(reg, partition, overrides) ==
    RegisterTypedefs(RegisterStructsEnums(reg, partition, overrides),
                     partition.typedefs, partition.namespace, overrides)

\* build_type_registry as a whole.
RECURSIVE build_type_registry(_, _)
build_type_registry(parts, overrides) ==
    IF parts = <<>> THEN EmptyRegistry
    ELSE RegisterPartition(
            build_type_registry(SubSeq(parts, 1, Len(parts) - 1), overrides),
            parts[Len(parts)], overrides)

----------------------------------------------------------------------------
(* lib::seed_registry_from_winmd, one type definition of the external file *)

\* The mutant of SeedType: an entry is only ever inserted, never replaced.
SeedTypeInsertOnly(reg, td, ns_filter) ==
    IF td.namespace = <<>> \/ td.name = "<Module>" \/ td.name = "Apis" THEN reg
    ELSE IF ~StartsWith(td.namespace, ns_filter) THEN reg
    ELSE IF ~contains(reg, td.name) THEN register(reg, td.name, td.namespace)
    ELSE reg

\* The body of `for td in index.types()`.
SeedType(reg, td, ns_filter) ==
    IF td.namespace = <<>> \/ td.name = "<Module>" \/ td.name = "Apis" THEN reg
    ELSE IF ~StartsWith(td.namespace, ns_filter) THEN reg
    ELSE IF ~contains(reg, td.name) THEN register(reg, td.name, td.namespace)
    ELSE IF StrLess(namespace_for(reg, td.name, <<>>), td.namespace) THEN reg
    ELSE register(reg, td.name, td.namespace)

----------------------------------------------------------------------------
(* generate_from_config, the deduplication of typedefs and structs         *)

\* The mutant of Dominated: nothing is ever dropped.
DominatedNever(reg, decl, partition) == FALSE

\* canonical_ns != partition.namespace
Dominated(reg, decl, partition) ==
    namespace_for(reg, decl.name, partition.namespace) # partition.namespace

\* partition.typedefs.retain(..); partition.structs.retain(..)
DedupPartition(partition, reg) ==
    [partition EXCEPT
        !.typedefs = SelectSeq(partition.typedefs,
                               LAMBDA td : ~Dominated(reg, td, partition)),
        !.structs = SelectSeq(partition.structs,
                              LAMBDA sd : ~Dominated(reg, sd, partition))]

----------------------------------------------------------------------------
(* lib::validate_type_references                                           *)

\* The concatenation of F(s[1]), F(s[2]), ... in order.
FlatMap(s, F(_)) ==
    LET f[i \in 0..Len(s)] == IF i = 0 THEN <<>> ELSE f[i - 1] \o F(s[i])
    IN  f[Len(s)]

UnresolvedRef(type_name, partition, context) ==
    [type_name |-> type_name, partition |-> partition, context |-> context]

\* collect_unresolved: what it pushes to `out`, in order.
RECURSIVE collect_unresolved(_, _, _, _)
collect_unresolved(ctype, reg, partition_ns, context) ==
    CASE ctype.kind = "Named" ->
            IF ctype.resolved = <<>> /\ ~contains(reg, ctype.name)
            THEN <<UnresolvedRef(ctype.name, partition_ns, context)>>
            ELSE <<>>
      [] ctype.kind = "Ptr" ->
            collect_unresolved(ctype.pointee, reg, partition_ns, context)
      [] ctype.kind = "Array" ->
            collect_unresolved(ctype.element, reg, partition_ns, context)
      [] ctype.kind = "FnPtr" ->
            collect_unresolved(ctype.return_type, reg, partition_ns, context)
            \o FlatMap(ctype.params,
                       LAMBDA p : collect_unresolved(p, reg, partition_ns, context))
      [] OTHER -> <<>>

\* The context strings of validate_type_references, as their parts.
FieldContext(field, s) == <<"field", field.name, "of struct", s.name>>
ReturnContext(f) == <<"return type of function", f.name>>
ParamContext(param, f) == <<"param", param.name, "of function", f.name>>
TypedefContext(td) == <<"typedef", td.name>>

\* The body of `for partition in partitions`: what one partition adds to
\* `unresolved`.
UnresolvedOfPartition(partition, reg) ==
    LET ns == partition.namespace IN
    FlatMap(partition.structs, LAMBDA s :
        FlatMap(s.fields, LAMBDA field :
            collect_unresolved(field.ty, reg, ns, FieldContext(field, s))))
    \o FlatMap(partition.functions, LAMBDA f :
        collect_unresolved(f.return_type, reg, ns, ReturnContext(f))
        \o FlatMap(f.params, LAMBDA param :
            collect_unresolved(param.ty, reg, ns, ParamContext(param, f))))
    \o FlatMap(partition.typedefs, LAMBDA td :
        collect_unresolved(td.underlying_type, reg, ns, TypedefContext(td)))

\* The mutant of UniqueByName: the last usage of a name is kept.
UniqueByNameKeepingLast(unresolved) ==
    LET later(i) == \E j \in (i + 1)..Len(unresolved) :
                        unresolved[j].type_name = unresolved[i].type_name
        u[i \in 0..Len(unresolved)] ==
            IF i = 0 THEN <<>>
            ELSE IF later(i) THEN u[i - 1]
            ELSE Append(u[i - 1], unresolved[i])
    IN  u[Len(unresolved)]

\* `if seen.insert(&r.type_name) { unique.push(r) }`
UniqueByName(unresolved) ==
    LET seen(i) == {unresolved[j].type_name : j \in 1..(i - 1)}
        u[i \in 0..Len(unresolved)] ==
            IF i = 0 THEN <<>>
            ELSE IF unresolved[i].type_name \in seen(i) THEN u[i - 1]
            ELSE Append(u[i - 1], unresolved[i])
    IN  u[Len(unresolved)]

\* validate_type_references: the entries of its error message, <<>> for Ok.
validate_type_references(parts, reg) ==
    UniqueByName(FlatMap(parts, LAMBDA p : UnresolvedOfPartition(p, reg)))

----------------------------------------------------------------------------
(* emit: CType -> windows_metadata::Type                                   *)

PtrMut(inner) == [kind |-> "PtrMut", inner |-> inner]
ArrayFixed(inner, len) == [kind |-> "ArrayFixed", inner |-> inner, len |-> len]
\* Type::named(namespace, name)
TypeName(namespace, name) == [kind |-> "Name", namespace |-> namespace, name |-> name]

RECURSIVE ctype_to_wintype(_, _, _)
ctype_to_wintype(ctype, default_namespace, reg) ==
    CASE ctype.kind = "Ptr" ->
            PtrMut(ctype_to_wintype(ctype.pointee, default_namespace, reg))
      [] ctype.kind = "Array" ->
            ArrayFixed(ctype_to_wintype(ctype.element, default_namespace, reg),
                       ctype.len)
      [] ctype.kind = "Named" ->
            IF contains(reg, ctype.name)
            THEN TypeName(namespace_for(reg, ctype.name, default_namespace), ctype.name)
            ELSE IF ctype.resolved # <<>>
            THEN ctype_to_wintype(ctype.resolved[1], default_namespace, reg)
            ELSE TypeName(namespace_for(reg, ctype.name, default_namespace), ctype.name)
      [] ctype.kind = "FnPtr" -> ISize
      [] OTHER -> Prim(ctype.kind)

----------------------------------------------------------------------------
(* emit: the rows handed to the metadata writer                            *)

Map(s, F(_)) == [i \in DOMAIN s |-> F(s[i])]

\* file.TypeDef(namespace, name, extends, flags) with the Field and MethodDef
\* rows that follow it, and the CustomAttribute rows that name it as parent.
TypeDefRow(namespace, name, extends, flags, fields, methods) ==
    [namespace |-> namespace, name |-> name, extends |-> extends, flags |-> flags,
     fields |-> fields, methods |-> methods,
     member_refs |-> <<>>,
     attributes |-> <<>>]   \* the emitter calls nothing that writes one

\* windows_metadata::Value: the variant and the digits of its payload.
Value(kind, bits) == [kind |-> kind, bits |-> bits]

\* file.Field(name, ty, flags); constant is the row of file.Constant(
\* HasConstant::Field(field), value) if there is one; the emitter calls
\* nothing that writes a FieldLayout row, so there is no offset.
FieldRow(name, ty, constant) ==
    [name |-> name, ty |-> ty, constant |-> constant, offset |-> <<>>]

\* file.Param(name, sequence, attrs)
ParamRow(name, sequence, attrs) ==
    [name |-> name, sequence |-> sequence, attrs |-> attrs]

\* file.MethodDef(name, &Signature { return_type, types }, ..) with the Param
\* rows that follow it.
MethodRow(name, return_type, types, params) ==
    [name |-> name, return_type |-> return_type, types |-> types, params |-> params]

\* emit::constant_value_for_enum
constant_value_for_enum(underlying, variant) ==
    CASE underlying.kind = "I8" -> Value("I8", Truncate(variant.signed_value, 2))
      [] underlying.kind = "U8" -> Value("U8", Truncate(variant.unsigned_value, 2))
      [] underlying.kind = "I16" -> Value("I16", Truncate(variant.signed_value, 4))
      [] underlying.kind = "U16" -> Value("U16", Truncate(variant.unsigned_value, 4))
      [] underlying.kind = "I32" -> Value("I32", Truncate(variant.signed_value, 8))
      [] underlying.kind = "U32" -> Value("U32", Truncate(variant.unsigned_value, 8))
      [] underlying.kind = "I64" -> Value("I64", variant.signed_value)
      [] underlying.kind = "U64" -> Value("U64", variant.unsigned_value)
      [] OTHER -> Value("I32", Truncate(variant.signed_value, 8))

emit_enum(namespace, en) ==
    LET underlying_wintype ==
            ctype_to_wintype(en.underlying_type, namespace, EmptyRegistry)
    IN  TypeDefRow(namespace, en.name, "System.Enum", {"Public", "Sealed"},
                   <<FieldRow("value__", underlying_wintype, <<>>)>>
                   \o Map(en.variants,
                          LAMBDA variant :
                            FieldRow(variant.name, underlying_wintype,
                                     <<constant_value_for_enum(en.underlying_type,
                                                               variant)>>)),
                   <<>>)

emit_struct(namespace, s, reg) ==
    TypeDefRow(namespace, s.name, "System.ValueType",
               {"Public", IF s.is_union THEN "ExplicitLayout" ELSE "SequentialLayout"},
               Map(s.fields, LAMBDA field :
                   FieldRow(field.name, ctype_to_wintype(field.ty, namespace, reg),
                            <<>>)),
               <<>>)

emit_delegate(namespace, name, return_type, params, reg) ==
    TypeDefRow(namespace, name, "System.MulticastDelegate", {"Public", "Sealed"},
               <<>>,
               <<MethodRow("Invoke",
                           ctype_to_wintype(return_type, namespace, reg),
                           Map(params, LAMBDA p :
                               ctype_to_wintype(p, namespace, reg)),
                           [i \in DOMAIN params |->
                               ParamRow("param" \o ToString(i - 1), i, {})])>>)

\* `let fnptr = match &td.underlying_type`: <<>> for None, <<FnPtr>> for Some.
DelegatePrototype(underlying_type) ==
    IF underlying_type.kind = "FnPtr" THEN <<underlying_type>>
    ELSE IF underlying_type.kind = "Ptr" /\ underlying_type.pointee.kind = "FnPtr"
    THEN <<underlying_type.pointee>>
    ELSE <<>>

\* The rows after the Value field of a wrapper struct: a TypeRef to the
\* attribute class and a MemberRef to its constructor.
NativeTypedefAttributeRef ==
    [kind |-> "MemberRef", name |-> ".ctor",
     parent |-> TypeName("Windows.Win32.Foundation.Metadata", "NativeTypedefAttribute")]

\* The mutant of emit_typedef: a pointer is a pointer-sized integer as well.
emit_typedef_handle(namespace, td, reg) ==
    LET fnptr == DelegatePrototype(td.underlying_type) IN
    IF fnptr # <<>>
    THEN emit_delegate(namespace, td.name, fnptr[1].return_type, fnptr[1].params, reg)
    ELSE [TypeDefRow(namespace, td.name, "System.ValueType",
                     {"Public", "SequentialLayout"},
                     <<FieldRow("Value",
                                IF td.underlying_type.kind \in {"Void", "Ptr"} THEN ISize
                                ELSE ctype_to_wintype(td.underlying_type, namespace, reg),
                                <<>>)>>,
                     <<>>)
          EXCEPT !.member_refs = <<NativeTypedefAttributeRef>>]

emit_typedef(namespace, td, reg) ==
    LET fnptr == DelegatePrototype(td.underlying_type) IN
    IF fnptr # <<>>
    THEN emit_delegate(namespace, td.name, fnptr[1].return_type, fnptr[1].params, reg)
    ELSE [TypeDefRow(namespace, td.name, "System.ValueType",
                     {"Public", "SequentialLayout"},
                     <<FieldRow("Value",
                                IF td.underlying_type.kind = "Void" THEN ISize
                                ELSE ctype_to_wintype(td.underlying_type, namespace, reg),
                                <<>>)>>,
                     <<>>)
          EXCEPT !.member_refs = <<NativeTypedefAttributeRef>>]

\* CType::is_outer_ptr_mut
is_outer_ptr_mut(ty) == ty.kind = "Ptr" /\ ~ty.is_const

emit_function(namespace, f, reg) ==
    MethodRow(f.name,
              ctype_to_wintype(f.return_type, namespace, reg),
              Map(f.params, LAMBDA p : ctype_to_wintype(p.ty, namespace, reg)),
              [i \in DOMAIN f.params |->
                  ParamRow(f.params[i].name, i,
                           IF is_outer_ptr_mut(f.params[i].ty) THEN {"Out"} ELSE {})])

\* emit::emit_constant: the literal field of the Apis class.
emit_constant(c) ==
    CASE c.value.kind = "Signed" ->
            FieldRow(c.name, Prim("I32"), <<Value("I32", Truncate(c.value.v, 8))>>)
      [] c.value.kind = "Unsigned" ->
            IF FitsU32(c.value.v)
            THEN FieldRow(c.name, Prim("U32"), <<Value("U32", Truncate(c.value.v, 8))>>)
            ELSE FieldRow(c.name, Prim("U64"), <<Value("U64", c.value.v)>>)
      [] c.value.kind = "Float" ->
            FieldRow(c.name, Prim("F64"), <<Value("F64", c.value.v)>>)

\* emit_partition: the TypeDef rows of one partition, in order.
emit_partition(partition, reg) ==
    LET ns == partition.namespace IN
    Map(partition.enums, LAMBDA en : emit_enum(ns, en))
    \o Map(partition.structs, LAMBDA s : emit_struct(ns, s, reg))
    \o Map(partition.typedefs, LAMBDA td : emit_typedef(ns, td, reg))
    \o IF partition.functions # <<>> \/ partition.constants # <<>>
       THEN <<TypeDefRow(ns, "Apis", "System.Object",
                         {"Public", "Abstract", "Sealed"},
                         Map(partition.constants, LAMBDA c : emit_constant(c)),
                         Map(partition.functions,
                             LAMBDA f : emit_function(ns, f, reg)))>>
       ELSE <<>>

\* emit_winmd: every partition, in order.
emit_winmd(parts, reg) == FlatMap(parts, LAMBDA p : emit_partition(p, reg))

\* The namespace and name of every named type a Type refers to.
RECURSIVE NamedRefs(_)
NamedRefs(ty) ==
    CASE ty.kind = "Name" -> {<<ty.namespace, ty.name>>}
      [] ty.kind \in {"PtrMut", "ArrayFixed"} -> NamedRefs(ty.inner)
      [] OTHER -> {}

\* Every named type reference in the field and signature blobs of the rows.
RowRefs(rows) ==
    UNION {
        UNION {NamedRefs(row.fields[i].ty) : i \in DOMAIN row.fields}
        \cup UNION {
            NamedRefs(row.methods[i].return_type)
            \cup UNION {NamedRefs(row.methods[i].types[j]) :
                        j \in DOMAIN row.methods[i].types}
            : i \in DOMAIN row.methods}
        : row \in Range(rows)}

\* The namespace and name of every type definition of the rows.
RowDefs(rows) == {<<row.namespace, row.name>> : row \in Range(rows)}

----------------------------------------------------------------------------
(* run / generate_from_config as a state machine                           *)

\* The Partition that extract_partition returns for a parsed translation unit.
Partition(partition_cfg, tu) ==
    [namespace |-> partition_cfg.namespace,
     library |-> partition_cfg.library,
     structs |-> tu.structs,
     enums |-> tu.enums,
     functions |-> tu.functions,
     typedefs |-> tu.typedefs,
     constants |-> tu.constants]

\* The translation units that are open when extract_partition returns for
\* partition i: `tu` is a local of the call and is dropped with it.
extract_partition_units(units, i) == (units \cup {i}) \ {i}

\* generate_from_config returns or unwinds: its locals `clang` and `index`
\* are dropped.
Returned(c) == [c EXCEPT !.index = FALSE]

\* `for partition_cfg in &cfg.partition`: extract_partition(..)?
ExtractPartition ==
    /\ pc = "extract"
    /\ LET partition == cfg.partition[idx]
           header == wrapper_header(partition, base_dir, cfg.include_paths, disk)
           parsed == [clang EXCEPT
                         !.calls = Append(@, [header |-> header.path,
                                              arguments |->
                                                  all_args(partition,
                                                           cfg.include_paths)]),
                         !.units = extract_partition_units(@, idx)]
       IN IF header.panic
          THEN /\ pc' = "panicked"
               /\ error' = "panic"
               /\ clang' = Returned(clang)
               /\ UNCHANGED <<disk, partitions, idx>>
          ELSE /\ disk' = header.disk
               /\ IF frontend[idx].parse_ok
                  THEN /\ partitions' = Append(partitions,
                                               Partition(partition, frontend[idx]))
                       /\ IF idx = Len(cfg.partition)
                          THEN pc' = "build" /\ idx' = 1
                          ELSE pc' = "extract" /\ idx' = idx + 1
                       /\ error' = error
                       /\ clang' = parsed
                  ELSE /\ pc' = "failed"
                       /\ error' = "parse"
                       /\ clang' = Returned(parsed)
                       /\ UNCHANGED <<partitions, idx>>
    /\ UNCHANGED <<cfg, base_dir, frontend, winmds, registry, pending,
                   message, file, outFile>>

\* build_type_registry, one iteration of `for partition in partitions`.
BuildStep ==
    /\ pc = "build"
    /\ registry' = RegisterPartition(registry, partitions[idx],
                                     cfg.namespace_overrides)
    /\ IF idx = Len(partitions)
       THEN pc' = "seed" /\ idx' = 1
       ELSE pc' = "build" /\ idx' = idx + 1
    /\ UNCHANGED <<cfg, base_dir, disk, clang, frontend, winmds, partitions,
                   pending, error, message, file, outFile>>

\* seed_registry_from_winmd up to `index.types()`: the file is read and
\* parsed, and the call panics when that fails.
SeedOpen ==
    /\ pc = "seed"
    /\ idx <= Len(cfg.type_import)
    /\ pending = <<>>
    /\ IF winmds[idx].readable
       THEN /\ pending' = <<winmds[idx].types>>
            /\ UNCHANGED <<pc, error, clang>>
       ELSE /\ pc' = "panicked"
            /\ error' = "panic"
            /\ clang' = Returned(clang)
            /\ UNCHANGED pending
    /\ UNCHANGED <<cfg, base_dir, disk, frontend, winmds, partitions,
                   registry, idx, message, file, outFile>>

\* seed_registry_from_winmd, one iteration of `for td in index.types()`; the
\* order of the enumeration is the reader's.
SeedStep ==
    /\ pc = "seed"
    /\ pending # <<>>
    /\ \E td \in pending[1] :
        /\ registry' = SeedType(registry, td, cfg.type_import[idx].namespace)
        /\ pending' = <<pending[1] \ {td}>>
    /\ UNCHANGED <<cfg, base_dir, disk, clang, frontend, winmds, partitions,
                   pc, idx, error, message, file, outFile>>

\* seed_registry_from_winmd returns, `for ti in &cfg.type_import` goes on.
SeedClose ==
    /\ pc = "seed"
    /\ pending = <<{}>>
    /\ pending' = <<>>
    /\ idx' = idx + 1
    /\ UNCHANGED <<cfg, base_dir, disk, clang, frontend, winmds, partitions,
                   registry, pc, error, message, file, outFile>>

\* The mutant of Dedup: the retain loops run before the registry is seeded.
DedupBeforeSeeding ==
    /\ pc = "seed"
    /\ pending = <<>>
    /\ partitions' = Map(partitions, LAMBDA p : DedupPartition(p, registry))
    /\ pc' = "validate"
    /\ UNCHANGED <<cfg, base_dir, disk, clang, frontend, winmds, registry,
                   idx, pending, error, message, file, outFile>>

\* The retain loops over every partition.
Dedup ==
    /\ pc = "seed"
    /\ idx > Len(cfg.type_import)
    /\ pending = <<>>
    /\ partitions' = Map(partitions, LAMBDA p : DedupPartition(p, registry))
    /\ pc' = "validate"
    /\ UNCHANGED <<cfg, base_dir, disk, clang, frontend, winmds, registry,
                   idx, pending, error, message, file, outFile>>

\* The mutant of Validate: the result of the validation is not propagated.
ValidateWithoutReturning ==
    /\ pc = "validate"
    /\ message' = validate_type_references(partitions, registry)
    /\ pc' = "emit"
    /\ error' = IF message' = <<>> THEN error ELSE "unresolved"
    /\ UNCHANGED <<cfg, base_dir, disk, clang, frontend, winmds, partitions,
                   registry, idx, pending, file, outFile>>

\* validate_type_references(&partitions, &registry)?
Validate ==
    /\ pc = "validate"
    /\ message' = validate_type_references(partitions, registry)
    /\ IF message' = <<>>
       THEN pc' = "emit" /\ error' = error /\ clang' = clang
       ELSE pc' = "failed" /\ error' = "unresolved" /\ clang' = Returned(clang)
    /\ UNCHANGED <<cfg, base_dir, disk, frontend, winmds, partitions,
                   registry, idx, pending, file, outFile>>

\* emit::emit_winmd(&cfg.output.name, &partitions, &registry)?
Emit ==
    /\ pc = "emit"
    /\ file' = <<emit_winmd(partitions, registry)>>
    /\ clang' = Returned(clang)
    /\ pc' = "write"
    /\ UNCHANGED <<cfg, base_dir, disk, frontend, winmds, partitions,
                   registry, idx, pending, error, message, outFile>>

\* run: std::fs::write(&output_path, &winmd_bytes)
RunWrite ==
    /\ pc = "write"
    /\ outFile' = file
    /\ pc' = "done"
    /\ UNCHANGED <<cfg, base_dir, disk, clang, frontend, winmds, partitions,
                   registry, idx, pending, error, message, file>>

Next ==
    \/ ExtractPartition
    \/ BuildStep
    \/ SeedOpen
    \/ SeedStep
    \/ SeedClose
    \/ Dedup
    \/ Validate
    \/ Emit
    \/ RunWrite

----------------------------------------------------------------------------
(* Inputs: the configuration, what the front-end reports, the winmd files  *)

\* At most this many declarations are in scope in one translation unit.
MaxDecls == 2

\* At most this many type definitions in one external winmd file.
MaxExtTypes == 2

\* Type names of the headers.
TypeNames == {"A", "B"}

\* Namespaces, as character codes: <<2, 1>> reads "b.a"; <<1>> sorts before
\* every partition namespace, <<3>> after, <<2, 1, 1>> between the first two.
PartitionConfigs ==
    [i \in 1..3 |->
        [namespace |-> <<2, i>>,
         library |-> <<"liba.so", "libb.so", "libc.so">>[i],
         headers |-> <<"t.h">>, traverse |-> <<>>, clang_args |-> <<>>]]

NoOverrides == [n \in {} |-> <<>>]

\* namespace_overrides with at most one entry, to the namespace of a partition
\* or to one that no partition has.
Overrides(names, namespaces) ==
    {NoOverrides} \cup {[n \in {name} |-> ns] : name \in names, ns \in namespaces}

\* The configurations of the first n partitions with the given overrides and
\* type_import lists.
Configs(n, overrides, imports) ==
    {[include_paths |-> <<>>, clang_args |-> <<>>,
      partition |-> SubSeq(PartitionConfigs, 1, n), namespace_overrides |-> ov,
      type_import |-> ti] : ov \in overrides, ti \in imports}

TypeImport(ns_filter) == [namespace |-> ns_filter]

\* The sequences of at most one element of S.
Opt(S) == {<<>>} \cup {<<x>> : x \in S}

\* The lists of one type, and of two different types, of a set.
TypeLists(types) ==
    {<<t>> : t \in types} \cup {l \in types \X types : l[1] # l[2]}

\* The members `x`, `y` (fields or parameters) with the given types.
Members(tys) == [i \in DOMAIN tys |-> [name |-> <<"x", "y">>[i], ty |-> tys[i]]]

\* Struct definitions with the given names and field type lists.
StructDefs(names, lists) ==
    {[name |-> n, fields |-> Members(tys), is_union |-> FALSE] :
        n \in names, tys \in lists}

EnumDefs(names) ==
    {[name |-> n, underlying_type |-> I32, variants |-> <<>>] : n \in names}

\* Prototypes of `f` with the given return types and parameter type lists.
FunctionDefs(rets, lists) ==
    {[name |-> "f", return_type |-> r, params |-> Members(tys),
      calling_convention |-> "Cdecl"] : r \in rets, tys \in lists}

TypedefDefs(names, types) ==
    {[name |-> n, underlying_type |-> t] : n \in names, t \in types}

\* A translation unit the front-end refuses.
ParseFailure ==
    [parse_ok |-> FALSE, structs |-> <<>>, enums |-> <<>>, functions |-> <<>>,
     typedefs |-> <<>>, constants |-> <<>>]

\* What the front-end can report for one translation unit: at most one
\* declaration of each kind, at most MaxDecls in all.
TranslationUnits(structs, enums, functions, typedefs) ==
    {tu \in [parse_ok : {TRUE}, structs : Opt(structs), enums : Opt(enums),
             functions : Opt(functions), typedefs : Opt(typedefs),
             constants : {<<>>}] :
        Len(tu.structs) + Len(tu.enums) + Len(tu.functions) + Len(tu.typedefs)
            <= MaxDecls}
    \cup {ParseFailure}

ExtType(namespace, name) == [namespace |-> namespace, name |-> name]

\* The winmd files with at most MaxExtTypes of the given type definitions,
\* and one that cannot be read.
WinmdFiles(types) ==
    {[readable |-> TRUE, types |-> ts] :
        ts \in {x \in SUBSET types : Cardinality(x) <= MaxExtTypes}}
    \cup {[readable |-> FALSE, types |-> {}]}

\* The file system with the given paths and no wrapper written yet.
Disk(exists, temp_writable) ==
    [exists |-> exists, temp_writable |-> temp_writable,
     wrappers |-> [path \in {} |-> <<>>]]

\* Clang::new and Index::new have succeeded; nothing is parsed yet.
NewIndex == [index |-> TRUE, units |-> {}, calls |-> <<>>]

\* generate_from_config is entered with the given directory and file system.
InitIn(configs, dir, d, files) ==
    /\ cfg \in configs
    /\ base_dir = dir
    /\ disk = d
    /\ clang = NewIndex
    /\ winmds \in [1..Len(cfg.type_import) -> files]
    /\ partitions = <<>>
    /\ registry = EmptyRegistry
    /\ pc = "extract"
    /\ idx = 1
    /\ pending = <<>>
    /\ error = "none"
    /\ message = <<>>
    /\ file = <<>>
    /\ outFile = <<>>

\* The state when run has loaded the configuration: the configuration file
\* is in the working directory, and so is `t.h`.
InitWith(configs, units, files) ==
    /\ InitIn(configs, "", Disk({"t.h"}, TRUE), files)
    /\ frontend \in [1..Len(cfg.partition) -> units]

(* The pipeline on headers whose declarations refer to each other's types. *)

\* `struct A *`, and a typedef `B` of `struct A` used by pointer.
RefTypes ==
    {I32, Ptr(Named("A", <<>>), FALSE), Ptr(Named("B", <<Named("A", <<>>)>>), TRUE)}

RefUnits ==
    TranslationUnits(StructDefs(TypeNames, {<<t>> : t \in RefTypes}), EnumDefs({"A"}),
                     FunctionDefs({I32}, {<<t>> : t \in RefTypes \ {I32}}),
                     TypedefDefs(TypeNames, {I32, Named("A", <<>>)}))

RefConfigs ==
    Configs(2, Overrides({"A"}, {<<2, 1>>, <<1, 1>>}),
            {<<>>, <<TypeImport(<<>>)>>})

RefWinmds == WinmdFiles({ExtType(<<1>>, "A"), ExtType(<<3>>, "A")})

Init == InitWith(RefConfigs, RefUnits, RefWinmds)

Spec == Init /\ [][Next]_vars

----------------------------------------------------------------------------
(* Reference integrity of the output                                       *)

\* The namespace and name of every type definition of the external winmd
\* files of the configuration.
ImportedDefs ==
    UNION {{<<td.namespace, td.name>> : td \in winmds[i].types} : i \in DOMAIN winmds}

\* The names of the Named nodes with resolved = None that a walk through Ptr,
\* Array and FnPtr finds in a type.
RECURSIVE NamedNone(_)
NamedNone(ctype) ==
    CASE ctype.kind = "Named" -> IF ctype.resolved = <<>> THEN {ctype.name} ELSE {}
      [] ctype.kind = "Ptr" -> NamedNone(ctype.pointee)
      [] ctype.kind = "Array" -> NamedNone(ctype.element)
      [] ctype.kind = "FnPtr" ->
            NamedNone(ctype.return_type)
            \cup UNION {NamedNone(ctype.params[i]) : i \in DOMAIN ctype.params}
      [] OTHER -> {}

\* The types that the declarations of a partition use.
TypesUsed(partition) ==
    UNION {{s.fields[i].ty : i \in DOMAIN s.fields} : s \in Range(partition.structs)}
    \cup UNION {{f.return_type} \cup {f.params[i].ty : i \in DOMAIN f.params} :
                f \in Range(partition.functions)}
    \cup {td.underlying_type : td \in Range(partition.typedefs)}

\* The names that some declaration refers to by a Named with resolved = None
\* and that the registry does not have.
UnresolvedNames ==
    UNION {UNION {NamedNone(t) : t \in TypesUsed(partitions[i])} :
           i \in DOMAIN partitions} \ DOMAIN registry

\* The pipeline has got past the validation (or was stopped by it).
Validated ==
    \/ pc \in {"emit", "write", "done"}
    \/ pc = "failed" /\ error = "unresolved"

\* C1: whenever generate_from_config succeeds, every named type reference of
\* the output points at a namespace and name that the output defines or that
\* an imported winmd file defines.
C1_EveryReferenceDefined ==
    file # <<>> => RowRefs(file[1]) \subseteq RowDefs(file[1]) \cup ImportedDefs

\* C2: if validate_type_references returns Ok, every Named with resolved =
\* None that the emitter reaches, also through the resolved fallback of an
\* unregistered Named, is in the registry: the emitter never has to name a
\* type that the registry lacks.
C2_ValidatedMeansRegistered ==
    pc = "emit" =>
        \A ref \in RowRefs(emit_winmd(partitions, registry)) :
            contains(registry, ref[2])

DeclaredNames ==
    UNION {{d.name : d \in Range(frontend[i].structs) \cup Range(frontend[i].enums)
                          \cup Range(frontend[i].typedefs)} : i \in DOMAIN frontend}

\* C10: a struct, enum or typedef whose name has a namespace override is
\* defined exactly once in the output, in the override namespace, and every
\* reference to it names that namespace.
C10_OverrideRelocates ==
    pc = "done" =>
        \A n \in DOMAIN cfg.namespace_overrides \cap DeclaredNames :
            /\ Cardinality({i \in DOMAIN file[1] : file[1][i].name = n}) = 1
            /\ \A i \in DOMAIN file[1] :
                  file[1][i].name = n =>
                      file[1][i].namespace = cfg.namespace_overrides[n]
            /\ \A ref \in RowRefs(file[1]) :
                  ref[2] = n => ref[1] = cfg.namespace_overrides[n]

----------------------------------------------------------------------------
(* The validation error message                                            *)

\* Every place where a declaration of a partition uses a type, with its
\* position in the walk of validate_type_references: partition, then struct
\* fields (1), functions (2, return type before parameters) and typedefs (3),
\* then declaration and member.
UseSites ==
    UNION {
        LET p == partitions[i] IN
        UNION {{[key |-> <<i, 1, d, m>>, ty |-> p.structs[d].fields[m].ty,
                 partition |-> p.namespace,
                 context |-> FieldContext(p.structs[d].fields[m], p.structs[d])] :
                m \in DOMAIN p.structs[d].fields} : d \in DOMAIN p.structs}
        \cup UNION {
               {[key |-> <<i, 2, d, 0>>, ty |-> p.functions[d].return_type,
                 partition |-> p.namespace,
                 context |-> ReturnContext(p.functions[d])]}
               \cup {[key |-> <<i, 2, d, m>>, ty |-> p.functions[d].params[m].ty,
                      partition |-> p.namespace,
                      context |-> ParamContext(p.functions[d].params[m], p.functions[d])] :
                     m \in DOMAIN p.functions[d].params}
               : d \in DOMAIN p.functions}
        \cup {[key |-> <<i, 3, d, 0>>, ty |-> p.typedefs[d].underlying_type,
               partition |-> p.namespace,
               context |-> TypedefContext(p.typedefs[d])] : d \in DOMAIN p.typedefs}
        : i \in DOMAIN partitions}

\* The use sites that refer to name n by a Named with resolved = None.
SitesOf(n) == {s \in UseSites : n \in NamedNone(s.ty)}

\* The first of them in walk order.
FirstUse(n) ==
    CHOOSE s \in SitesOf(n) : \A t \in SitesOf(n) : t.key = s.key \/ StrLess(s.key, t.key)

\* C3: when validation fails, the message lists each unresolved name exactly
\* once, with the partition and the declaration of its first use in walk
\* order, and lists no registered name.
C3_MessageListsFirstUses ==
    error = "unresolved" =>
        /\ Len(message) = Cardinality(UnresolvedNames)
        /\ \A n \in UnresolvedNames :
              \E i \in DOMAIN message :
                  message[i] = UnresolvedRef(n, FirstUse(n).partition, FirstUse(n).context)
        /\ \A i \in DOMAIN message : ~contains(registry, message[i].type_name)

\* C3 witness: a failed validation with two unresolved names, one of them
\* used by two declarations, and a registered name in use as well.
C3_Witness ==
    /\ error = "unresolved"
    /\ Len(message) = 2
    /\ \E n \in UnresolvedNames : Cardinality({s.context : s \in SitesOf(n)}) >= 2
    /\ \E n \in DOMAIN registry : SitesOf(n) # {}

\* Headers whose declarations use pointers, arrays, function pointers and
\* system typedefs over three type names.
ValTypes ==
    {Ptr(Named("A", <<>>), FALSE),
     Array(Named("B", <<>>), 4),
     Ptr(FnPtr(Named("C", <<>>), <<Named("B", <<>>), Named("A", <<I32>>)>>), FALSE)}

ValUnits ==
    TranslationUnits(StructDefs({"A"}, TypeLists(ValTypes)), {},
                     FunctionDefs({I32, Named("C", <<>>)},
                                  TypeLists(ValTypes \ {Array(Named("B", <<>>), 4)})),
                     TypedefDefs({"B"}, ValTypes \ {Ptr(Named("A", <<>>), FALSE)}))

ValConfigs == Configs(2, {NoOverrides}, {<<TypeImport(<<>>)>>})

ValWinmds == WinmdFiles({ExtType(<<1>>, "C")})

InitValidate == InitWith(ValConfigs, ValUnits, ValWinmds)

SpecValidate == InitValidate /\ [][Next]_vars

----------------------------------------------------------------------------
(* The registry after build_type_registry, and the deduplication           *)

\* The least element of a non-empty set of numbers.
Min(S) == CHOOSE x \in S : \A y \in S : x <= y

\* The partitions that, as extracted, define name n as a typedef.
TypedefPartitions(n) ==
    {i \in DOMAIN partitions : \E td \in Range(frontend[i].typedefs) : td.name = n}

\* The partitions that, as extracted, define name n as a struct.
StructPartitions(n) ==
    {i \in DOMAIN partitions : \E sd \in Range(frontend[i].structs) : sd.name = n}

\* The partitions that, as extracted, define name n as an enum.
EnumPartitions(n) ==
    {i \in DOMAIN partitions : \E en \in Range(frontend[i].enums) : en.name = n}

\* The partitions that hold a struct or a typedef named n now.
StructOrTypedefHolders(n) ==
    {i \in DOMAIN partitions :
        \E d \in Range(partitions[i].structs) \cup Range(partitions[i].typedefs) :
            d.name = n}

\* The partitions that hold an enum named n now.
EnumHolders(n) ==
    {i \in DOMAIN partitions : \E en \in Range(partitions[i].enums) : en.name = n}

\* Every name that a declaration or an external type definition can have.
AllNames == TypeNames \cup {"C", "Apis", "<Module>"}

\* build_type_registry has just returned.
BuildDone == pc = "seed" /\ idx = 1 /\ pending = <<>>

\* Every type_import has been processed.
SeedDone == pc = "seed" /\ idx > Len(cfg.type_import) /\ pending = <<>>

\* The deduplication has run.
Deduplicated ==
    \/ pc \in {"validate", "emit", "write", "done"}
    \/ pc = "failed" /\ error = "unresolved"

\* In registry reg, every name that at least `several` partitions define as a
\* typedef belongs to the earliest of them (or to its override); with
\* `alone`, only names that no partition defines as a struct or an enum count.
FirstTypedefOwns(reg, several, alone) ==
    \A n \in AllNames :
        (/\ Cardinality(TypedefPartitions(n)) >= several
         /\ alone => StructPartitions(n) \cup EnumPartitions(n) = {})
        => /\ contains(reg, n)
           /\ reg[n] = OverrideOr(cfg.namespace_overrides, n,
                                  partitions[Min(TypedefPartitions(n))].namespace)

\* A step of build_type_registry changes no entry of a name that the
\* partition it processes does not define as a struct or an enum.
TypedefsKeepEntries ==
    \A n \in DOMAIN registry :
        (\A d \in Range(partitions[idx].structs) \cup Range(partitions[idx].enums) :
            d.name # n)
        => registry'[n] = registry[n]

C6_FirstStructWins ==
    \A n \in AllNames :
        (n \notin DOMAIN cfg.namespace_overrides /\ Cardinality(StructPartitions(n)) >= 2)
        => /\ BuildDone =>
                registry[n] = partitions[Min(StructPartitions(n))].namespace
           /\ Deduplicated =>
                {i \in DOMAIN partitions :
                    \E sd \in Range(partitions[i].structs) : sd.name = n}
                = {Min(StructPartitions(n))}

\* The rows of the output that define a type named n from a declaration (the
\* Apis class of a partition is not one).
RowsNamed(n) ==
    {row \in Range(file[1]) : row.name = n /\ row.extends # "System.Object"}

\* C7 as stated: after deduplication at most one partition holds a definition
\* of a name, as struct, enum or typedef, and the output has no two type
\* definitions of one name in different namespaces.
C7_Original ==
    /\ Deduplicated =>
        \A n \in AllNames :
            Cardinality(StructOrTypedefHolders(n) \cup EnumHolders(n)) <= 1
    /\ file # <<>> =>
        \A n \in AllNames :
            \A r1, r2 \in RowsNamed(n) : r1.namespace = r2.namespace

\* C7 as amended: after deduplication every struct or typedef definition
\* that a partition still holds is in the namespace the registry gives its
\* name, so the output has no two struct, typedef or delegate definitions of
\* one name in different namespaces (enums are not deduplicated).
C7_OneStructOrTypedefNamespace ==
    /\ Deduplicated =>
        \A i \in DOMAIN partitions :
            \A d \in Range(partitions[i].structs) \cup Range(partitions[i].typedefs) :
                /\ contains(registry, d.name)
                /\ registry[d.name] = partitions[i].namespace
    /\ file # <<>> =>
        \A n \in AllNames :
            \A r1, r2 \in {r \in RowsNamed(n) : r.extends # "System.Enum"} :
                r1.namespace = r2.namespace

\* C7 witness: a struct or typedef that two partitions extracted is held by
\* one partition only when the output is emitted.
C7_Witness ==
    /\ file # <<>>
    /\ \E n \in AllNames :
        /\ Cardinality(StructPartitions(n) \cup TypedefPartitions(n)) >= 2
        /\ Cardinality(StructOrTypedefHolders(n)) = 1

\* Headers of three partitions that declare the same few names.
RegUnits ==
    TranslationUnits(StructDefs({"A"}, {<<I32>>}), EnumDefs({"A"}),
                     FunctionDefs({I32}, {<<Ptr(Named("A", <<>>), FALSE)>>}),
                     TypedefDefs(TypeNames, {I32}))

RegConfigs ==
    Configs(3, Overrides(TypeNames, {<<2, 1>>, <<1, 1>>}),
            {<<>>, <<TypeImport(<<>>)>>})

RegWinmds == WinmdFiles({ExtType(<<1>>, "A"), ExtType(<<3>>, "A")})

InitRegistry == InitWith(RegConfigs, RegUnits, RegWinmds)

SpecRegistry == InitRegistry /\ [][Next]_vars

----------------------------------------------------------------------------
(* Seeding the registry from external winmd files                          *)

\* The registry as build_type_registry leaves it (the partitions are as
\* extracted until the deduplication).
Built == build_type_registry(partitions, cfg.namespace_overrides)

\* The type definitions of import i that seed_registry_from_winmd does not
\* skip: a namespace that starts with the filter, not <Module> or Apis.
Importable(i) ==
    {td \in winmds[i].types :
        /\ td.namespace # <<>>
        /\ td.name \notin {"<Module>", "Apis"}
        /\ StartsWith(td.namespace, cfg.type_import[i].namespace)}

\* The external namespaces that can give name n to the registry.
Candidates(n) ==
    UNION {{td.namespace : td \in {x \in Importable(i) : x.name = n}} :
           i \in DOMAIN winmds}

\* The lexicographically smallest of a non-empty set of namespaces.
Smallest(S) == CHOOSE x \in S : \A y \in S : x = y \/ StrLess(x, y)

\* C8: seeding never changes the entry of a name that a local partition
\* registered.
C8_SeedingKeepsLocalEntries ==
    SeedDone => \A n \in DOMAIN Built : registry[n] = Built[n]

\* C9: a name that no local partition registers and that external namespaces
\* passing the filter define ends up under the lexicographically smallest of
\* them, in whatever order the definitions and the imports come.
C9_SmallestExternalNamespace ==
    SeedDone =>
        \A n \in AllNames :
            (~contains(Built, n) /\ Candidates(n) # {})
            => /\ contains(registry, n)
               /\ registry[n] = Smallest(Candidates(n))

\* C9 witness: seeding is over and a name that is not local, defined by three
\* importable namespaces in two files, sits under the smallest.
C9_Witness ==
    /\ SeedDone
    /\ Len(cfg.type_import) = 2
    /\ \E n \in AllNames :
        /\ ~contains(Built, n)
        /\ Cardinality(Candidates(n)) >= 3
        /\ \A i \in DOMAIN winmds : \E td \in Importable(i) : td.name = n
        /\ registry[n] = Smallest(Candidates(n))

\* One partition and up to two imports of files that define A in several
\* namespaces, next to their Apis and <Module> classes.
SeedUnits ==
    TranslationUnits(StructDefs({"A"}, {<<I32>>}), {},
                     FunctionDefs({I32}, {<<Ptr(Named("A", <<>>), FALSE)>>}),
                     TypedefDefs({"A"}, {I32}))

SeedFilters == {TypeImport(<<>>), TypeImport(<<2>>)}

SeedConfigs ==
    Configs(1, {NoOverrides},
            {<<>>} \cup {<<a>> : a \in SeedFilters} \cup (SeedFilters \X SeedFilters))

SeedWinmds ==
    WinmdFiles({ExtType(<<1>>, "A"), ExtType(<<2, 1>>, "A"), ExtType(<<2, 1, 1>>, "A"),
                ExtType(<<3>>, "A"), ExtType(<<>>, "A"), ExtType(<<2>>, "Apis"),
                ExtType(<<>>, "<Module>")})

InitSeed == InitWith(SeedConfigs, SeedUnits, SeedWinmds)

SpecSeed == InitSeed /\ [][Next]_vars

----------------------------------------------------------------------------
(* Functions and function-pointer typedefs, from the header to the output  *)

\* The traverse list of every partition, and a header that is not on it.
TraverseFiles == <<"t.h">>
Locations == {<<"t.h">>, <<"sys.h">>}

\* What extract_partition does with a translation unit of each of the given
\* entity lists, and a unit that does not parse.
ExtractedUnits(entity_lists) ==
    {Collected(entities, TraverseFiles) : entities \in entity_lists} \cup {ParseFailure}

\* One partition, no overrides, no import or one.
PlainConfigs == Configs(1, {NoOverrides}, {<<>>, <<TypeImport(<<>>)>>})

PlainWinmds == WinmdFiles({ExtType(<<1>>, "A")})

\* Parameter declarations: `int`, `const char *`, `int *`, `int *const`,
\* `const int [2]`, `int [2]`, `const int []`.
ParamTypes ==
    {ClangInt,
     ClangPointer(Const(ClangBuiltin("CharS"))),
     ClangPointer(ClangInt),
     Const(ClangPointer(ClangInt)),
     ClangConstantArray(Const(ClangInt), 2),
     ClangConstantArray(ClangInt, 2),
     ClangIncompleteArray(Const(ClangInt))}

\* The arguments `x`, `y` with the given types.
Arguments(tys) ==
    [i \in DOMAIN tys |-> [name |-> <<<<"x">>, <<"y">>>>[i], type |-> tys[i]]]

\* Declarations of `int f(..)`, with and without a trailing `...`.
FunctionDecls ==
    {FunctionDecl(<<"f">>, variadic, ClangInt, Arguments(tys), loc) :
        variadic \in BOOLEAN, tys \in TypeLists(ParamTypes), loc \in Locations}

\* `typedef int (*cb)(const char *)` and `typedef int (*cb)(const char *, ...)`.
CallbackTypedefs ==
    {TypedefDecl(<<"cb">>,
                 <<ClangPointer(ClangFunctionPrototype(
                        ClangInt, <<ClangPointer(Const(ClangBuiltin("CharS")))>>,
                        variadic))>>,
                 <<"t.h">>) : variadic \in BOOLEAN}

FunctionUnits ==
    ExtractedUnits({<<f>> : f \in FunctionDecls}
                   \cup {<<td, f>> : td \in CallbackTypedefs, f \in FunctionDecls})

InitFunctions == InitWith(PlainConfigs, FunctionUnits, PlainWinmds)

SpecFunctions == InitFunctions /\ [][Next]_vars

\* The entities of the translation units that parsed.
ParsedEntities ==
    UNION {Range(frontend[i].entities) :
           i \in {j \in DOMAIN frontend : frontend[j].parse_ok}}

\* The methods of the Apis classes of the output.
ApisMethods ==
    UNION {Range(row.methods) : row \in {r \in Range(file[1]) : r.name = "Apis"}}

\* The FunctionDecl entities that have a method of their name in the Apis
\* class of the output, paired with that method.
EmittedFunctions ==
    {em \in ParsedEntities \X ApisMethods :
        em[1].kind = "FunctionDecl" /\ em[1].name = <<em[2].name>>}

\* The C declaration of a parameter is a pointer to a non-const type, or an
\* array (which decays to a pointer) of a non-const element type.
PointerToMutable(ty) ==
    \/ ty.kind = "Pointer" /\ ~ty.pointee.is_const
    \/ ty.kind \in {"ConstantArray", "IncompleteArray"} /\ ~ty.element.is_const

\* C11: every parameter of every emitted function has the Out flag exactly
\* when its C declaration is a pointer whose pointee is not const, an array
\* parameter counting as a pointer to its element type; a parameter that is
\* no pointer never has it.
C11_OutIffPointerToMutable ==
    file # <<>> =>
        \A em \in EmittedFunctions :
            \A j \in DOMAIN em[2].params :
                ("Out" \in em[2].params[j].attrs) <=> PointerToMutable(em[1].args[j].type)

\* The type is, or points to, a variadic function prototype.
VariadicPrototype(ty) ==
    \/ ty.kind = "FunctionPrototype" /\ ty.variadic
    \/ ty.kind = "Pointer" /\ ty.pointee.kind = "FunctionPrototype" /\ ty.pointee.variadic

\* C12: no variadic prototype is in the output: a function declared with
\* `...` is no method of an Apis class, and a typedef of a pointer to a
\* variadic prototype is no delegate with an Invoke signature.
C12_NoVariadicPrototype ==
    file # <<>> =>
        /\ \A em \in EmittedFunctions : ~em[1].is_variadic
        /\ \A i \in DOMAIN frontend :
            frontend[i].parse_ok =>
                \A e \in Range(frontend[i].entities) :
                    (e.kind = "TypedefDecl" /\ VariadicPrototype(e.underlying[1]))
                    => ~\E row \in Range(file[1]) :
                            /\ row.name = e.name[1]
                            /\ row.extends = "System.MulticastDelegate"
                            /\ \E m \in Range(row.methods) : m.name = "Invoke"

----------------------------------------------------------------------------
(* #define constants and enums, from the header to the output              *)

\* Integer literals of a header: decimal, hexadecimal, octal, suffixed, some
\* at the edges of the 32-bit range; and two macros that are no integer.
IntegerLiterals ==
    {"0", "2", "256", "0x1F", "010", "010U", "1U", "0x10UL", "2147483647",
     "2147483648", "0xFFFFFFFF", "0xFFFFFFFFFFFFFFFF"}

\* `#define name literal` and `#define name -literal`
Defines(names, literals, locations) ==
    {MacroDefinition(<<n>>, <<n, l>>, loc) :
        n \in names, l \in literals, loc \in locations}
    \cup {MacroDefinition(<<n>>, <<n, "-", l>>, loc) :
        n \in names, l \in literals, loc \in locations}

\* `#define M (1)`, which is not one literal.
ExpressionDefine == MacroDefinition(<<"M">>, <<"M", "(", "1", ")">>, <<"t.h">>)

\* An enumerator whose value has the given bits at the width of its enum:
\* libclang reports them sign-extended and zero-extended to 64 bits.
Enumerator(name, bits) == EnumConstantDecl(name, SignExtend(bits), ZeroExtend(bits))

\* ffffffff at 32 bits: -1 of an `int` enum, 4294967295 of an `unsigned` one.
AllOnes32 == [i \in 1..8 |-> 15]

\* `enum { P = 1, Q = 0xFFFFFFFF }` and `enum { P = 1, Q = -1 }`, which the
\* front-end names "enum (unnamed at t.h:9:1)".
AnonymousEnums ==
    {EnumDecl(<<"enum (unnamed at t.h:9:1)">>, TRUE, <<ClangBuiltin(k)>>,
              <<Enumerator("P", WordOf(1, 8)), Enumerator("Q", AllOnes32)>>,
              <<"t.h">>) : k \in {"Int", "UInt"}}

\* `enum E { R = 1, S = .. }` with the underlying types `int`, `unsigned`,
\* `long`, and the fixed underlying types `unsigned char` and `u8_t` (a
\* typedef of it).
NamedEnums ==
    {EnumDecl(<<"E">>, FALSE, <<ClangBuiltin(k)>>,
              <<Enumerator("R", WordOf(1, 8)), Enumerator("S", AllOnes32)>>,
              <<"t.h">>) : k \in {"Int", "UInt"}}
    \cup {EnumDecl(<<"E">>, FALSE, <<ClangBuiltin("Long")>>,
                   <<Enumerator("R", WordOf(1, 16)),
                     Enumerator("S", [i \in 1..16 |-> 15])>>, <<"t.h">>)}
    \cup {EnumDecl(<<"E">>, FALSE, <<ty>>,
                   <<Enumerator("R", WordOf(1, 2)), Enumerator("S", WordOf(200, 2))>>,
                   <<"t.h">>) :
            ty \in {ClangBuiltin("UChar"), ClangTypedef("u8_t", ClangBuiltin("UChar"))}}

\* One macro; two macros, the second of a few literals; a macro and an enum
\* in either order.
ConstantEntityLists ==
    {<<m>> : m \in Defines({"M"}, IntegerLiterals \cup {"1.5"}, Locations)
                    \cup {ExpressionDefine}}
    \cup {<<m, n>> : m \in Defines({"M"}, {"2", "0x10", "010"}, {<<"t.h">>}),
                     n \in Defines({"N"}, {"3", "0x11"}, {<<"t.h">>})}
    \cup {<<m, e>> : m \in Defines({"M"}, {"2", "0x10"}, {<<"t.h">>}),
                     e \in AnonymousEnums \cup NamedEnums}
    \cup {<<e, m>> : m \in Defines({"M"}, {"2", "0x10"}, {<<"t.h">>}),
                     e \in AnonymousEnums \cup NamedEnums}
    \cup {<<e>> : e \in AnonymousEnums \cup NamedEnums}

ConstantUnits == ExtractedUnits(ConstantEntityLists)

InitConstants == InitWith(PlainConfigs, ConstantUnits, PlainWinmds)

SpecConstants == InitConstants /\ [][Next]_vars

\* A mathematical integer: its sign and the digits of its magnitude.
Number(negative, magnitude) ==
    [negative |-> negative /\ ~IsZero(magnitude), magnitude |-> magnitude]

\* The number that an unsigned word is.
UnsignedNumber(w) == Number(FALSE, ZeroExtend(w))

\* The number that a two's complement word is.
SignedNumber(w) ==
    IF IsNegative(w) THEN Number(TRUE, ZeroExtend(WrappingNeg(w)))
    ELSE Number(FALSE, ZeroExtend(w))

\* The number that a windows_metadata::Value of an integer type holds.
ValueNumber(value) ==
    IF value.kind \in {"I8", "I16", "I32", "I64"} THEN SignedNumber(value.bits)
    ELSE UnsignedNumber(value.bits)

IntegerKinds == {"I8", "U8", "I16", "U16", "I32", "U32", "I64", "U64"}

\* The value that C gives an integer literal: hexadecimal after 0x, octal
\* after 0, decimal otherwise, whatever the suffix; <<>> if it is none or
\* does not fit 64 bits.
LiteralWord(token) ==
    LET s == TrimSuffix(token) IN
    IF Len(s) > 2 /\ SubSeq(s, 1, 2) \in {"0x", "0X"}
    THEN u64_from_str_radix(SubSeq(s, 3, Len(s)), 16)
    ELSE IF Len(s) > 1 /\ SubSeq(s, 1, 1) = "0"
    THEN u64_from_str_radix(SubSeq(s, 2, Len(s)), 8)
    ELSE u64_from_str_radix(s, 10)

\* The number that the header defines a macro of one integer literal as.
DefinedNumber(macro) ==
    LET nn == NegatedNumber(StripHash(macro.tokens)) IN
    Number(nn[1].negated, LiteralWord(nn[1].number)[1])

\* The macro is one integer literal, optionally negated.
IntegerDefine(macro) ==
    LET nn == NegatedNumber(StripHash(macro.tokens)) IN
    nn # <<>> /\ LiteralWord(nn[1].number) # <<>>

\* The fields of the Apis classes of the output.
ApisFields ==
    UNION {Range(row.fields) : row \in {r \in Range(file[1]) : r.name = "Apis"}}

\* C13: the constant of the Apis field of every integer #define that the
\* pipeline accepts has the value of the literal in the header.
C13_DefineKeepsValue ==
    file # <<>> =>
        \A e \in ParsedEntities :
            (e.kind = "MacroDefinition" /\ IntegerDefine(e)) =>
                \A f \in ApisFields :
                    (f.name = e.name[1] /\ f.constant[1].kind \in IntegerKinds)
                    => ValueNumber(f.constant[1]) = DefinedNumber(e)

\* The EnumDecl entities that have a TypeDef row of their name extending
\* System.Enum in the output, paired with that row.
EmittedEnums ==
    {er \in ParsedEntities \X Range(file[1]) :
        /\ er[1].kind = "EnumDecl"
        /\ er[2].extends = "System.Enum"
        /\ er[1].name = <<er[2].name>>}

SignedKinds == {"I8", "I16", "I32", "I64"}

\* C14: every enumerator's constant has the type of the enum's value__ field,
\* and its value is the front-end's signed value when that type is signed
\* and the unsigned value when it is unsigned.
C14_EnumConstantOfUnderlyingType ==
    file # <<>> =>
        \A er \in EmittedEnums :
            \A i \in DOMAIN er[1].constants :
                LET value__ == er[2].fields[1]
                    value == er[2].fields[i + 1].constant[1]
                IN  /\ value.kind = value__.ty.kind
                    /\ ValueNumber(value) =
                        IF value__.ty.kind \in SignedKinds
                        THEN SignedNumber(er[1].constants[i].signed)
                        ELSE UnsignedNumber(er[1].constants[i].unsigned)

\* The number that a model::ConstantValue of an integer holds.
ConstantNumber(value) ==
    IF value.kind = "Signed" THEN SignedNumber(value.v) ELSE UnsignedNumber(value.v)

\* The value that C gives an enumerator: the signed reading of its bits when
\* the enum's underlying type is signed, the unsigned reading otherwise.
EnumeratorNumber(enum, constant) ==
    IF get_canonical_type(enum.underlying[1]).kind \in
            {"SChar", "CharS", "Short", "Int", "Long", "LongLong"}
    THEN SignedNumber(constant.signed)
    ELSE UnsignedNumber(constant.unsigned)

\* The positions of the constants of a name.
PositionsOf(constants, name) == {k \in DOMAIN constants : constants[k].name = name}

\* The entity is a traversed anonymous enum.
AnonymousEnumDecl(e) ==
    e.kind = "EnumDecl" /\ e.is_anonymous /\ should_emit(e, TraverseFiles)

\* The names, in AST order, of the enumerators of the anonymous enums.
RECURSIVE AnonymousEnumerators(_)
AnonymousEnumerators(entities) ==
    IF entities = <<>> THEN <<>>
    ELSE (IF AnonymousEnumDecl(Head(entities))
          THEN [i \in DOMAIN Head(entities).constants |->
                    Head(entities).constants[i].name]
          ELSE <<>>) \o AnonymousEnumerators(Tail(entities))

\* The names, in AST order, of the macros.
MacroNames(entities) ==
    LET macros == SelectSeq(entities, LAMBDA e : e.kind = "MacroDefinition")
    IN  [i \in DOMAIN macros |-> macros[i].name[1]]

\* The constants of the names of a list are in the order of the list, as far
\* as they exist.
InOrderOf(constants, names) ==
    \A a, b \in DOMAIN names :
        a < b => \A ka \in PositionsOf(constants, names[a]),
                    kb \in PositionsOf(constants, names[b]) : ka < kb

\* C15: an anonymous enum yields no EnumDef; each of its enumerators yields
\* exactly one constant of the enumerator's value; in a partition's constant
\* list every #define constant precedes every anonymous-enum constant, and
\* each of the two groups is in AST order.
C15_AnonymousEnumConstants ==
    \A p \in DOMAIN partitions :
        LET entities == frontend[p].entities
            constants == partitions[p].constants
        IN  /\ \A i \in DOMAIN entities :
                AnonymousEnumDecl(entities[i]) =>
                    /\ \A en \in Range(partitions[p].enums) :
                            <<en.name>> # entities[i].name
                    /\ \A c \in Range(entities[i].constants) :
                            /\ Cardinality(PositionsOf(constants, c.name)) = 1
                            /\ \A k \in PositionsOf(constants, c.name) :
                                ConstantNumber(constants[k].value) =
                                    EnumeratorNumber(entities[i], c)
            /\ \A m \in Range(MacroNames(entities)),
                 n \in Range(AnonymousEnumerators(entities)) :
                    \A km \in PositionsOf(constants, m),
                       kn \in PositionsOf(constants, n) : km < kn
            /\ InOrderOf(constants, MacroNames(entities))
            /\ InOrderOf(constants, AnonymousEnumerators(entities))

----------------------------------------------------------------------------
(* Records: structs, unions and their anonymous members                    *)

\* What get_name() gives for a record without a tag: nothing with an older
\* front-end, a spelling made of its location with a newer one.
UnnamedSpellings == {<<>>, <<"(unnamed at t.h:3:5)">>}

\* The type of a field declared with an unnamed `struct { .. }` or
\* `union { .. }` of the given members.
UnnamedRecord(kind, spelling, fields) ==
    ClangElaborated(ClangRecord(RecordDecl(kind, spelling, TRUE, TRUE, fields,
                                           <<"t.h">>)))

IntField(name) == FieldDecl(name, ClangInt)

\* `struct S { .. };` and `union U { .. };` in a traversed header.
StructS(fields) == RecordDecl("StructDecl", <<"S">>, FALSE, TRUE, fields, <<"t.h">>)
UnionU(fields) == RecordDecl("UnionDecl", <<"U">>, FALSE, TRUE, fields, <<"t.h">>)

\* Records without unnamed members: a struct, a union, both, either in a
\* header that is not traversed, and a forward declaration.
PlainRecordLists ==
    {<<RecordDecl(k, n, FALSE, TRUE, <<IntField("a"), FieldDecl("b", ClangBuiltin("Float"))>>,
                  loc)>> :
        k \in {"StructDecl", "UnionDecl"}, n \in {<<"S">>}, loc \in Locations}
    \cup {<<StructS(<<IntField("a")>>), UnionU(<<IntField("a"), IntField("b")>>)>>,
          <<RecordDecl("StructDecl", <<"S">>, FALSE, FALSE, <<>>, <<"t.h">>)>>}

\* `struct S { union { int a; float b; } u; int c; };`,
\* `union U { struct { int a; } s; };`,
\* `struct S { struct { union { int a; } v; int b; } u; };`
NestedRecordLists ==
    {<<StructS(<<FieldDecl("u", UnnamedRecord("UnionDecl", sp,
                                  <<IntField("a"), FieldDecl("b", ClangBuiltin("Float"))>>)),
                 IntField("c")>>)>> : sp \in UnnamedSpellings}
    \cup {<<UnionU(<<FieldDecl("s", UnnamedRecord("StructDecl", sp, <<IntField("a")>>))>>)>> :
            sp \in UnnamedSpellings}
    \cup {<<StructS(<<FieldDecl("u",
                UnnamedRecord("StructDecl", sp,
                    <<FieldDecl("v", UnnamedRecord("UnionDecl", sp, <<IntField("a")>>)),
                      IntField("b")>>))>>)>> : sp \in UnnamedSpellings}

\* `struct S { struct { long double x; } u; };`: an unnamed member that has a
\* member of a type map_clang_type does not support.
UnsupportedRecordLists ==
    {<<StructS(<<FieldDecl("u", UnnamedRecord("StructDecl", sp,
                    <<FieldDecl("x", ClangBuiltin("LongDouble"))>>))>>)>> :
        sp \in UnnamedSpellings}

\* `struct S { union { int a; } u; };` next to a `struct S_u { int z; };`
ClashingRecordLists ==
    LET s == StructS(<<FieldDecl("u", UnnamedRecord("UnionDecl", <<>>, <<IntField("a")>>))>>)
        s_u == RecordDecl("StructDecl", <<"S_u">>, FALSE, TRUE, <<IntField("z")>>, <<"t.h">>)
    IN  {<<s, s_u>>, <<s_u, s>>}

\* `struct S { struct { int base; int count; } q[2]; int c; };` and the same
\* with `q[4][3]` or a union.
ArrayRecordLists ==
    {<<StructS(<<FieldDecl("q", ar), IntField("c")>>)>> :
        ar \in UNION {{ClangConstantArray(el, 2),
                       ClangConstantArray(ClangConstantArray(el, 3), 4)} :
                      el \in {UnnamedRecord(k, sp, <<IntField("base"), IntField("count")>>) :
                              k \in {"StructDecl", "UnionDecl"}, sp \in UnnamedSpellings}}}

\* `struct S { int (*cb)(const char *); int c; };` and the same union.
CallbackRecordLists ==
    {<<RecordDecl(k, <<"S">>, FALSE, TRUE,
                  <<FieldDecl("cb", ClangPointer(ClangFunctionPrototype(
                        ClangInt, <<ClangPointer(Const(ClangBuiltin("CharS")))>>, FALSE))),
                    IntField("c")>>, <<"t.h">>)>> : k \in {"StructDecl", "UnionDecl"}}

RecordEntityLists ==
    PlainRecordLists \cup NestedRecordLists \cup UnsupportedRecordLists
    \cup ClashingRecordLists \cup ArrayRecordLists \cup CallbackRecordLists

RecordUnits == ExtractedUnits(RecordEntityLists)

InitRecords == InitWith(PlainConfigs, RecordUnits, PlainWinmds)

SpecRecords == InitRecords /\ [][Next]_vars

\* The StructDefs of the partitions, paired with the TypeDef row of their
\* name in the output.
EmittedRecords ==
    {sr \in (UNION {Range(partitions[p].structs) : p \in DOMAIN partitions})
            \X Range(file[1]) :
        sr[2].extends = "System.ValueType" /\ sr[2].name = sr[1].name}

\* C16: the layout flag of every emitted record is explicit exactly when the
\* record is a union and sequential otherwise, and every field of an emitted
\* union carries the field offset 0.
C16_UnionExplicitAtOffsetZero ==
    file # <<>> =>
        \A sr \in EmittedRecords :
            /\ "ExplicitLayout" \in sr[2].flags <=> sr[1].is_union
            /\ "SequentialLayout" \in sr[2].flags <=> ~sr[1].is_union
            /\ sr[1].is_union =>
                \A i \in DOMAIN sr[2].fields : sr[2].fields[i].offset = <<0>>

\* The type of a field is an unnamed struct or union.
UnnamedRecordType(ty) ==
    get_canonical_type(ty).kind = "Record" /\ get_canonical_type(ty).decl.is_anonymous

\* The unnamed struct and union members of a record, at any depth: the name
\* <parent>_<field> that each is to get, its parent's name, its field and
\* its declaration.
RECURSIVE UnnamedMembers(_, _)
UnnamedMembers(decl, name) ==
    UNION {{[name |-> name \o "_" \o f.name, parent |-> name, field |-> f.name,
             decl |-> get_canonical_type(f.type).decl]}
           \cup UnnamedMembers(get_canonical_type(f.type).decl, name \o "_" \o f.name) :
           f \in {g \in Range(decl.fields) : UnnamedRecordType(g.type)}}

\* The traversed definitions of tagged records of partition p.
TaggedRecords(p) ==
    {e \in Range(frontend[p].entities) :
        /\ e.kind \in {"StructDecl", "UnionDecl"}
        /\ e.name # <<>>
        /\ e.is_definition
        /\ should_emit(e, TraverseFiles)}

\* The unnamed members of the traversed records of partition p.
UnnamedMembersOf(p) == UNION {UnnamedMembers(e, e.name[1]) : e \in TaggedRecords(p)}

\* The positions of the records of a name in a struct list.
RecordsNamed(structs, name) == {k \in DOMAIN structs : structs[k].name = name}

\* The registry has been built from the partitions.
RegistryBuilt == pc \in {"seed", "validate", "emit", "write", "done"} \/ Validated

\* What C17 says of the unnamed member m of a record of partition p.
ExtractedAsSibling(p, m) ==
    LET structs == partitions[p].structs IN
    /\ Cardinality(RecordsNamed(structs, m.name)) = 1
    /\ \A k \in RecordsNamed(structs, m.name) :
        /\ structs[k].is_union = (m.decl.kind = "UnionDecl")
        /\ [i \in DOMAIN structs[k].fields |-> structs[k].fields[i].name]
            = [i \in DOMAIN m.decl.fields |-> m.decl.fields[i].name]
    /\ \A k \in RecordsNamed(structs, m.parent) :
        \A i \in DOMAIN structs[k].fields :
            structs[k].fields[i].name = m.field
            => structs[k].fields[i].ty = Named(m.name, <<>>)
    /\ RegistryBuilt => contains(registry, m.name)
    /\ \A i \in DOMAIN message : message[i].type_name # m.name

RECURSIVE Supported(_)
Supported(decl) ==
    \A f \in Range(decl.fields) :
        IF UnnamedRecordType(f.type) THEN Supported(get_canonical_type(f.type).decl)
        ELSE map_clang_type(f.type) # <<>>

\* The header declares a tagged record of the name.
Tagged(p, name) ==
    \E e \in Range(frontend[p].entities) :
        e.kind \in {"StructDecl", "UnionDecl"} /\ e.name = <<name>>

RECURSIVE ElementType(_)
ElementType(ty) ==
    IF get_canonical_type(ty).kind = "ConstantArray"
    THEN ElementType(get_canonical_type(ty).element)
    ELSE ty

\* The type of a field is an array of unnamed structs or unions.
ArrayOfUnnamedRecords(ty) ==
    get_canonical_type(ty).kind = "ConstantArray" /\ UnnamedRecordType(ElementType(ty))

\* C18: when a field of a record is an array, of one or more dimensions, of
\* unnamed structs or unions, the struct list has a record <parent>_<field>
\* with the members of the element in declaration order, and the parent
\* record is in the list with that field.
C18_ArrayOfUnnamedRecordsIsSibling ==
    \A p \in DOMAIN partitions :
        \A e \in TaggedRecords(p) :
            \A f \in {g \in Range(e.fields) : ArrayOfUnnamedRecords(g.type)} :
                LET structs == partitions[p].structs
                    element == get_canonical_type(ElementType(f.type)).decl
                IN  /\ \E k \in RecordsNamed(structs, e.name[1] \o "_" \o f.name) :
                        [i \in DOMAIN structs[k].fields |-> structs[k].fields[i].name]
                            = [i \in DOMAIN element.fields |-> element.fields[i].name]
                    /\ \E k \in RecordsNamed(structs, e.name[1]) :
                        \E i \in DOMAIN structs[k].fields :
                            structs[k].fields[i].name = f.name

----------------------------------------------------------------------------
(* Typedefs: wrapper structs, opaque handles                               *)

\* `struct __dirstream;` and `struct __dirstream { int fd; };`
DirStream(is_definition, location) ==
    RecordDecl("StructDecl", <<"__dirstream">>, FALSE, is_definition,
               IF is_definition THEN <<IntField("fd")>> ELSE <<>>, location)

\* The type `struct __dirstream` of a declaration of it.
DirStreamType(decl) == ClangElaborated(ClangRecord(decl))

\* `typedef struct __dirstream *DIR;`, `typedef struct __dirstream DIR;`
\* after a declaration of the record.
DirTypedefs(decl) ==
    {TypedefDecl(<<"DIR">>, <<ty>>, <<"t.h">>) :
        ty \in {ClangPointer(DirStreamType(decl)), DirStreamType(decl)}}

\* `DIR opendir(const char *);`
OpenDir(typedef) ==
    FunctionDecl(<<"opendir">>, FALSE,
                 ClangTypedef("DIR", get_canonical_type(typedef.underlying[1])),
                 Arguments(<<ClangPointer(Const(ClangBuiltin("CharS")))>>), <<"t.h">>)

\* `typedef int myint;`, `typedef void *handle;`, `typedef const char *str;`,
\* `typedef unsigned long bool;`, in a traversed header or not.
ScalarTypedefs ==
    {TypedefDecl(<<nu[1]>>, <<nu[2]>>, loc) :
        nu \in {<<"myint", ClangInt>>,
                <<"handle", ClangPointer(ClangBuiltin("Void"))>>,
                <<"str", ClangPointer(Const(ClangBuiltin("CharS")))>>,
                <<"bool", ClangBuiltin("ULong")>>},
        loc \in Locations}

\* A declaration of the record followed by a typedef that names it.
DirPairs ==
    UNION {{<<decl, td>> : td \in DirTypedefs(decl)} :
           decl \in {DirStream(FALSE, <<"t.h">>), DirStream(FALSE, <<"sys.h">>),
                     DirStream(TRUE, <<"t.h">>)}}

TypedefEntityLists ==
    {<<dt[1], dt[2]>> : dt \in DirPairs}
    \cup {<<dt[1], dt[2], OpenDir(dt[2])>> : dt \in DirPairs}
    \cup {<<td>> : td \in ScalarTypedefs \cup CallbackTypedefs}
    \cup {<<td, DirStream(FALSE, <<"t.h">>)>> : td \in ScalarTypedefs}

TypedefUnits == ExtractedUnits(TypedefEntityLists)

InitTypedefs == InitWith(PlainConfigs, TypedefUnits, PlainWinmds)

SpecTypedefs == InitTypedefs /\ [][Next]_vars

\* The TypedefDefs of the partitions that are not emitted as delegates,
\* paired with the TypeDef row of their name in the output.
EmittedWrappers ==
    {tr \in (UNION {Range(partitions[p].typedefs) : p \in DOMAIN partitions})
            \X Range(file[1]) :
        /\ DelegatePrototype(tr[1].underlying_type) = <<>>
        /\ tr[2].name = tr[1].name}

\* C19: the type definition of every typedef that is emitted as a wrapper
\* struct has the native-typedef custom attribute attached.
C19_WrapperHasNativeTypedefAttribute ==
    file # <<>> =>
        \A tr \in EmittedWrappers :
            \E i \in DOMAIN tr[2].attributes :
                tr[2].attributes[i].ctor = NativeTypedefAttributeRef

\* The traversed typedefs whose underlying type is a pointer to a record that
\* is only forward-declared, resp. such a record itself.
OpaquePointerTypedefs ==
    {e \in ParsedEntities :
        /\ e.kind = "TypedefDecl" /\ should_emit(e, TraverseFiles)
        /\ e.underlying[1].kind = "Pointer"
        /\ get_canonical_type(e.underlying[1].pointee).kind = "Record"
        /\ ~get_canonical_type(e.underlying[1].pointee).decl.is_definition}

OpaqueRecordTypedefs ==
    {e \in ParsedEntities :
        /\ e.kind = "TypedefDecl" /\ should_emit(e, TraverseFiles)
        /\ get_canonical_type(e.underlying[1]).kind = "Record"
        /\ ~get_canonical_type(e.underlying[1]).decl.is_definition}

\* The typedef is emitted as a wrapper struct whose one field, Value, has the
\* given type, and the output defines no type of the given tag.
WrapperOf(e, value, tag) ==
    /\ \E row \in Range(file[1]) :
        /\ row.name = e.name[1]
        /\ row.extends = "System.ValueType"
        /\ row.fields = <<FieldRow("Value", value, <<>>)>>
    /\ \A row \in Range(file[1]) : row.name # tag

\* C20 as the claim states it: a typedef of a pointer to a record that is only
\* forward-declared is emitted as a wrapper struct whose Value field has the
\* pointer-sized integer type, and no type definition is emitted for the
\* record.
C20_OpaquePointerIsInteger ==
    file # <<>> =>
        \A e \in OpaquePointerTypedefs :
            WrapperOf(e, ISize, get_canonical_type(e.underlying[1].pointee).decl.name[1])

\* C20, amended: such a typedef is emitted as a wrapper struct whose Value
\* field is a pointer to void; it is the typedef of the forward-declared
\* record itself whose Value field has the pointer-sized integer type; in
\* both cases no type definition is emitted for the record.
C20_OpaquePointerIsVoidPointer ==
    file # <<>> =>
        /\ \A e \in OpaquePointerTypedefs :
            WrapperOf(e, PtrMut(Void),
                      get_canonical_type(e.underlying[1].pointee).decl.name[1])
        /\ \A e \in OpaqueRecordTypedefs :
            WrapperOf(e, ISize, get_canonical_type(e.underlying[1]).decl.name[1])

\* `typedef struct __dirstream *DIR; DIR opendir(const char *);` has been
\* emitted.
C20_Witness ==
    /\ pc = "done"
    /\ \E e \in OpaquePointerTypedefs : e.name = <<"DIR">>
    /\ \E row \in Range(file[1]) : row.name = "DIR"
    /\ \E m \in ApisMethods : m.name = "opendir"

\* The traversed tagged records that have a TypeDef row of their name in the
\* output, paired with that row.
EmittedTaggedRecords ==
    {er \in (UNION {TaggedRecords(p) : p \in DOMAIN partitions}) \X Range(file[1]) :
        er[2].extends = "System.ValueType" /\ er[1].name = <<er[2].name>>}

\* The C type of a field is a pointer to a function prototype.
FunctionPointer(ty) ==
    ty.kind = "Pointer" /\ ty.pointee.kind \in {"FunctionPrototype", "FunctionNoPrototype"}

\* C21: a field of a struct or union that C declares as a function pointer
\* is emitted with the pointer-sized integer type itself.
C21_FunctionPointerFieldIsInteger ==
    file # <<>> =>
        \A er \in EmittedTaggedRecords :
            \A i \in DOMAIN er[1].fields :
                (FunctionPointer(er[1].fields[i].type) /\ i \in DOMAIN er[2].fields)
                => er[2].fields[i].ty = ISize

----------------------------------------------------------------------------
(* Header paths, traverse lists and the flags of the front-end             *)

\* The files the front-end reports declarations from: the header as it is
\* spelled on the command line, the same name in two directories, and a
\* header they include.
ScopeFiles == <<"t.h", "/proj/t.h", "/inc/t.h", "/proj/sys.h">>

\* One declaration of each kind in file k, named after k: `struct S2 { int
\* a; };`, `enum E2 { R2 = 1 };`, `int f2(int x);`, `typedef int T2;` and
\* `#define D2 1`.
DeclarationsIn(k) ==
    LET n == ToString(k)
        loc == <<ScopeFiles[k]>>
    IN <<RecordDecl("StructDecl", <<"S" \o n>>, FALSE, TRUE, <<IntField("a")>>, loc),
         EnumDecl(<<"E" \o n>>, FALSE, <<ClangInt>>,
                  <<Enumerator("R" \o n, WordOf(1, 8))>>, loc),
         FunctionDecl(<<"f" \o n>>, FALSE, ClangInt, Arguments(<<ClangInt>>), loc),
         TypedefDecl(<<"T" \o n>>, <<ClangInt>>, loc),
         MacroDefinition(<<"D" \o n>>, <<"D" \o n, "1">>, loc)>>

ScopeEntities ==
    DeclarationsIn(1) \o DeclarationsIn(2) \o DeclarationsIn(3) \o DeclarationsIn(4)

\* headers and traverse of a partition: one header, two headers with and
\* without a traverse list, a traverse list that names an included header,
\* an absolute header.
ScopeHeaders ==
    {<<<<"t.h">>, <<>>>>,
     <<<<"t.h", "sys.h">>, <<>>>>,
     <<<<"t.h", "sys.h">>, <<"t.h">>>>,
     <<<<"t.h">>, <<"sys.h">>>>,
     <<<<"/inc/t.h">>, <<>>>>}

ScopePartitions ==
    {[namespace |-> <<2, 1>>, library |-> "liba.so", headers |-> ht[1],
      traverse |-> ht[2], clang_args |-> args] :
        ht \in ScopeHeaders, args \in {<<>>, <<"-I/inc">>}}

ScopeConfigs ==
    {[include_paths |-> inc, clang_args |-> args, partition |-> <<partition>>,
      namespace_overrides |-> NoOverrides, type_import |-> ti] :
        inc \in {<<>>, <<"/inc">>, <<"/inc", "/alt">>, <<"/alt", "/inc", "/alt">>},
        args \in {<<>>, <<"-DX">>},
        partition \in ScopePartitions,
        ti \in {<<>>, <<TypeImport(<<>>)>>}}

\* The directory of the configuration file: the working directory, or /proj.
BaseDirs == {"", "/proj"}

\* The headers that exist, and whether the temporary directory can be
\* written to.
Disks ==
    {Disk(exists, TRUE) :
        exists \in {{}, {"/proj/t.h", "/proj/sys.h"}, {"/inc/t.h", "/alt/t.h"},
                    {"/alt/t.h", "/proj/sys.h"}, {"t.h", "sys.h", "/inc/t.h"},
                    {"t.h", "/proj/t.h", "/inc/t.h", "/alt/t.h", "/proj/sys.h"}}}
    \cup {Disk({"/proj/t.h", "/proj/sys.h"}, FALSE)}

\* The front-end can open the file it is asked to parse: a single header has
\* to exist, a wrapper has just been written.
Parsable(partition) ==
    Len(partition.headers) = 1 =>
        resolve_header(partition.headers[1], base_dir, cfg.include_paths, disk)
            \in disk.exists

\* Every partition's translation unit has the declarations of ScopeEntities,
\* or does not parse.
InitScope ==
    /\ \E dir \in BaseDirs, d \in Disks : InitIn(ScopeConfigs, dir, d, PlainWinmds)
    /\ \E parse_ok \in [DOMAIN cfg.partition -> BOOLEAN] :
        /\ \A i \in DOMAIN cfg.partition : parse_ok[i] => Parsable(cfg.partition[i])
        /\ frontend = [i \in DOMAIN cfg.partition |->
                       IF parse_ok[i]
                       THEN Collected(ScopeEntities,
                                      resolved_traverse(cfg.partition[i], base_dir,
                                                        cfg.include_paths, disk))
                       ELSE ParseFailure]

SpecScope == InitScope /\ [][Next]_vars

----------------------------------------------------------------------------
(* Claims about header paths                                               *)

\* The calls of the parser for partitions with exactly one header, with the
\* header as it is configured.
SingleHeaderCalls ==
    {[configured |-> cfg.partition[i].headers[1], header |-> clang.calls[i].header] :
        i \in {k \in DOMAIN clang.calls : Len(cfg.partition[k].headers) = 1}}

\* base_dir/path, then include_paths[i]/path in the order of the list.
HeaderCandidates(path) ==
    <<join(base_dir, path)>>
        \o [i \in DOMAIN cfg.include_paths |-> join(cfg.include_paths[i], path)]

\* The positions of the candidates that exist.
Existing(path) == {k \in DOMAIN HeaderCandidates(path) : HeaderCandidates(path)[k] \in disk.exists}

\* The first candidate that exists.
FirstExisting(path) ==
    HeaderCandidates(path)[CHOOSE k \in Existing(path) : \A j \in Existing(path) : k <= j]

\* What the header of a call is to be, given what it is to be when no
\* candidate exists.
ResolvedAs(call, fallback) ==
    call.header = IF is_absolute(call.configured) THEN call.configured
                  ELSE IF Existing(call.configured) # {}
                       THEN FirstExisting(call.configured)
                       ELSE fallback

\* C22, as stated: an absolute header path is handed to the front-end
\* unchanged, a relative one as the first candidate that exists among
\* base_dir/path and include_paths[i]/path in list order, and as it is
\* configured when no candidate exists.
C22_MissingHeaderAsConfigured ==
    \A call \in SingleHeaderCalls : ResolvedAs(call, call.configured)

\* C22, amended: an absolute header path is handed to the front-end
\* unchanged, a relative one as the first candidate that exists among
\* base_dir/path and include_paths[i]/path in list order, and as
\* base_dir/path when no candidate exists.
C22_MissingHeaderUnderBaseDir ==
    \A call \in SingleHeaderCalls : ResolvedAs(call, join(base_dir, call.configured))

\* A relative header that exists nowhere was resolved under /proj, with
\* include paths configured.
C22_Witness ==
    /\ base_dir = "/proj"
    /\ cfg.include_paths # <<>>
    /\ \E call \in SingleHeaderCalls :
        /\ ~is_absolute(call.configured)
        /\ Existing(call.configured) = {}
        /\ call.header = "/proj/t.h"

\* The resolved traverse paths of partition i: those of its traverse list, of
\* its headers when the traverse list is empty.
TraversePaths(i) ==
    LET list == IF cfg.partition[i].traverse = <<>> THEN cfg.partition[i].headers
                ELSE cfg.partition[i].traverse
    IN {resolve_header(list[k], base_dir, cfg.include_paths, disk) : k \in DOMAIN list}

\* The file of the entity's location is a traverse path of partition i or
\* ends with one.
Traversed(i, e) ==
    /\ e.location # <<>>
    /\ \E tf \in TraversePaths(i) : e.location[1] = tf \/ ends_with(e.location[1], tf)

\* The names of what a partition holds.
ExtractedNames(p) ==
    {p.structs[k].name : k \in DOMAIN p.structs}
        \cup {p.enums[k].name : k \in DOMAIN p.enums}
        \cup {p.functions[k].name : k \in DOMAIN p.functions}
        \cup {p.typedefs[k].name : k \in DOMAIN p.typedefs}
        \cup {p.constants[k].name : k \in DOMAIN p.constants}

\* The names of the types, methods and constants of a namespace of the output.
OutputNames(namespace) ==
    LET rows == {row \in Range(file[1]) : row.namespace = namespace}
    IN {row.name : row \in {r \in rows : r.name # "Apis"}}
        \cup UNION {{row.methods[k].name : k \in DOMAIN row.methods} \cup
                    {row.fields[k].name : k \in DOMAIN row.fields} :
                    row \in {r \in rows : r.name = "Apis"}}

\* A declaration of the name in the translation unit of partition i is in a
\* traversed file.
DeclaredInTraversedFile(i, name) ==
    \E e \in Range(frontend[i].entities) : e.name = <<name>> /\ Traversed(i, e)

\* C23: every struct, enum, function, typedef and constant of a partition is
\* declared in a file that equals or ends with one of the partition's resolved
\* traverse paths (its headers when the traverse list is empty), and the
\* partition's namespace of the output has no type, method or constant of a
\* declaration that is only in a header that is not traversed.
C23_OnlyTraversedDeclarations ==
    \A i \in DOMAIN partitions :
        /\ \A name \in ExtractedNames(partitions[i]) : DeclaredInTraversedFile(i, name)
        /\ file # <<>> =>
            \A name \in OutputNames(partitions[i].namespace) :
                DeclaredInTraversedFile(i, name)

\* The output has the declarations of a header that is traversed because its
\* path ends with a traverse path, and none of another header that was parsed.
C23_Witness ==
    /\ file # <<>>
    /\ \E i \in DOMAIN partitions :
        /\ "S2" \in OutputNames(partitions[i].namespace)
        /\ "f2" \in OutputNames(partitions[i].namespace)
        /\ "D2" \in ExtractedNames(partitions[i])
        /\ "/proj/t.h" \notin TraversePaths(i)
        /\ \E e \in Range(frontend[i].entities) : ~Traversed(i, e)

\* The flags with `-I<dir>` added for every directory, in order, that the
\* flags do not have yet.
RECURSIVE WithIncludeFlags(_, _)
WithIncludeFlags(flags, dirs) ==
    IF dirs = <<>> THEN flags
    ELSE WithIncludeFlags(IF \E k \in DOMAIN flags : flags[k] = "-I" \o Head(dirs)
                          THEN flags ELSE flags \o <<"-I" \o Head(dirs)>>,
                          Tail(dirs))

\* C24: the flags of the front-end for every partition are the clang_args of
\* the configuration, then the clang_args of the partition, then one -I flag
\* for each include_paths entry that the list does not have yet.
C24_FlagsOfConfigThenPartition ==
    \A i \in DOMAIN clang.calls :
        clang.calls[i].arguments =
            WithIncludeFlags(cfg.clang_args \o cfg.partition[i].clang_args,
                             cfg.include_paths)

----------------------------------------------------------------------------
(* Declarations that cannot be translated                                  *)

\* `long double`, which map_clang_type has no arm for.
ClangLongDouble == ClangBuiltin("LongDouble")

\* `struct S { int a; long double x; };`, which extract_struct gives up on.
UntranslatableS == StructS(<<IntField("a"), FieldDecl("x", ClangLongDouble)>>)

\* `struct S *`
PointerToS == ClangPointer(ClangElaborated(ClangRecord(UntranslatableS)))

\* The struct alone; with `int f(struct S *x);`; with `struct T { struct S
\* *p; };`; with `typedef struct S *PS;`; functions that take or return a
\* `long double` or take a pointer to one; a typedef of it; an enum without
\* an underlying type; and headers where everything translates.
SkippedEntityLists ==
    {<<UntranslatableS>>,
     <<UntranslatableS, FunctionDecl(<<"f">>, FALSE, ClangInt,
                                     Arguments(<<PointerToS>>), <<"t.h">>)>>,
     <<UntranslatableS, RecordDecl("StructDecl", <<"T">>, FALSE, TRUE,
                                   <<FieldDecl("p", PointerToS)>>, <<"t.h">>)>>,
     <<UntranslatableS, TypedefDecl(<<"PS">>, <<PointerToS>>, <<"t.h">>)>>,
     <<TypedefDecl(<<"ld">>, <<ClangLongDouble>>, <<"t.h">>)>>,
     <<EnumDecl(<<"E">>, FALSE, <<>>, <<Enumerator("R", WordOf(1, 8))>>, <<"t.h">>),
       StructS(<<IntField("a")>>)>>,
     <<StructS(<<IntField("a")>>),
       FunctionDecl(<<"f">>, FALSE, ClangInt,
                    Arguments(<<ClangPointer(ClangElaborated(ClangRecord(
                                    StructS(<<IntField("a")>>))))>>), <<"t.h">>)>>}
    \cup {<<FunctionDecl(<<"f">>, FALSE, rt[1], Arguments(rt[2]), <<"t.h">>)>> :
            rt \in {<<ClangInt, <<ClangLongDouble>>>>,
                    <<ClangInt, <<ClangInt, ClangPointer(ClangLongDouble)>>>>,
                    <<ClangLongDouble, <<ClangInt>>>>,
                    <<ClangInt, <<ClangInt>>>>}}

SkippedUnits == ExtractedUnits(SkippedEntityLists)

InitSkipped == InitWith(PlainConfigs, SkippedUnits, PlainWinmds)

SpecSkipped == InitSkipped /\ [][Next]_vars

\* The traversed declarations of the translation units that define a type.
TypeDeclarations ==
    {e \in ParsedEntities :
        /\ should_emit(e, TraverseFiles)
        /\ e.name # <<>>
        /\ \/ e.kind \in {"StructDecl", "UnionDecl"} /\ e.is_definition
           \/ e.kind \in {"EnumDecl", "TypedefDecl"}}

\* The traversed record declarations that have a member whose type cannot be
\* translated.
UntranslatableRecords ==
    {e \in TypeDeclarations :
        /\ e.kind \in {"StructDecl", "UnionDecl"}
        /\ \E k \in DOMAIN e.fields : map_clang_type(e.fields[k].type) = <<>>}

\* The traversed function declarations with a parameter or return type that
\* cannot be translated.
UntranslatableFunctions ==
    {e \in ParsedEntities :
        /\ e.kind = "FunctionDecl"
        /\ should_emit(e, TraverseFiles)
        /\ \/ map_clang_type(e.result) = <<>>
           \/ \E k \in DOMAIN e.args : map_clang_type(e.args[k].type) = <<>>}

\* C25: a record that cannot be translated is in no partition; generation
\* does not fail over a type that a traversed header declares, translated or
\* not; and no function with a parameter or return type that cannot be
\* translated is in a partition.
C25_SkippedDeclarationNeverFatal ==
    /\ \A e \in UntranslatableRecords :
        \A i \in DOMAIN partitions :
            \A k \in DOMAIN partitions[i].structs : partitions[i].structs[k].name # e.name[1]
    /\ \A k \in DOMAIN message :
        \A e \in TypeDeclarations : message[k].type_name # e.name[1]
    /\ \A e \in UntranslatableFunctions :
        \A i \in DOMAIN partitions :
            \A k \in DOMAIN partitions[i].functions :
                partitions[i].functions[k].name # e.name[1]

----------------------------------------------------------------------------
(* Integer literals with suffixes                                          *)

\* Tokens that sonar does not evaluate: literals with each suffix in either
\* case, hexadecimal and octal ones, a value above 64 bits, digits that are
\* none of the base, and letters that are no suffix of C.
SuffixedLiterals ==
    {"1U", "1u", "1L", "1l", "1LL", "1ll", "1UL", "1ul", "1uL", "1ULL", "1ull",
     "1Ull", "0x1F", "0X1f", "0x10UL", "0xFFFFFFFFFFFFFFFF", "0x10000000000000000",
     "017", "017L", "0U", "18446744073709551615U", "18446744073709551616U",
     "0x", "0xG", "019L", "09U", "1UU", "1LU", "1LLL", "0x1FLLU", "1Z", "U", "x1"}

LiteralEntityLists == {<<m>> : m \in Defines({"M"}, SuffixedLiterals, {<<"t.h">>})}

LiteralUnits == ExtractedUnits(LiteralEntityLists)

InitLiterals == InitWith(PlainConfigs, LiteralUnits, PlainWinmds)

SpecLiterals == InitLiterals /\ [][Next]_vars

\* The letters of a suffix in upper case.
RECURSIVE UpperCase(_)
UpperCase(s) ==
    IF s = "" THEN ""
    ELSE LET c == SubSeq(s, 1, 1)
         IN (IF c = "u" THEN "U" ELSE IF c = "l" THEN "L" ELSE c)
                \o UpperCase(SubSeq(s, 2, Len(s)))

\* The string is made of characters of the set, and of one at least.
DigitsOf(s, digits) == s # "" /\ \A c \in Range(Chars(s)) : c \in digits

OctalDigits == {"0", "1", "2", "3", "4", "5", "6", "7"}
DecimalDigits == OctalDigits \cup {"8", "9"}

\* The value of an integer literal of C without suffix, if it is one and fits
\* 64 bits: <<>> otherwise.
UnsuffixedLiteral(s) ==
    IF Len(s) > 2 /\ SubSeq(s, 1, 2) \in {"0x", "0X"}
    THEN IF DigitsOf(SubSeq(s, 3, Len(s)), DOMAIN DigitValue)
         THEN u64_from_str_radix(SubSeq(s, 3, Len(s)), 16) ELSE <<>>
    ELSE IF s = "0" THEN <<U64(0)>>
    ELSE IF Len(s) > 1 /\ SubSeq(s, 1, 1) = "0"
    THEN IF DigitsOf(SubSeq(s, 2, Len(s)), OctalDigits)
         THEN u64_from_str_radix(SubSeq(s, 2, Len(s)), 8) ELSE <<>>
    ELSE IF DigitsOf(s, DecimalDigits) THEN u64_from_str_radix(s, 10)
    ELSE <<>>

\* The values of the token read as a literal followed by nothing or by one of
\* U, L, LL, UL, ULL in any letter case: one value, or none.
SuffixedLiteralValues(token) ==
    {UnsuffixedLiteral(SubSeq(token, 1, k))[1] :
        k \in {j \in 0..Len(token) :
                /\ UpperCase(SubSeq(token, j + 1, Len(token)))
                        \in {"", "U", "L", "LL", "UL", "ULL"}
                /\ UnsuffixedLiteral(SubSeq(token, 1, j)) # <<>>}}

\* The traversed macros of one token that sonar does not evaluate, which are
\* the ones collect_constants calls parse_hex_or_suffixed_int on.
SupplementalMacros ==
    {e \in ParsedEntities :
        /\ e.kind = "MacroDefinition"
        /\ should_emit(e, TraverseFiles)
        /\ Len(e.tokens) = 2
        /\ u64_from_str(e.tokens[2]) = <<>>
        /\ ~f64_from_str(e.tokens[2])}

\* The values of the constants of a name in the partitions.
ConstantValues(name) ==
    {c.value.v : c \in {x \in UNION {Range(partitions[i].constants) :
                                     i \in DOMAIN partitions} : x.name = name}}

\* C26: a macro whose token parse_hex_or_suffixed_int is called on becomes a
\* constant, of the value of the token, exactly when the token is a
\* hexadecimal, octal or decimal literal that fits 64 bits, followed by
\* nothing or by one of U, L, LL, UL, ULL in any letter case; every other
\* token gives no constant.
C26_ExactlyTheSuffixedLiterals ==
    partitions # <<>> =>
        \A e \in SupplementalMacros :
            ConstantValues(e.name[1]) = SuffixedLiteralValues(e.tokens[2])

----------------------------------------------------------------------------
(* va_list                                                                 *)

\* The names of the compiler's variable-argument types.
VaListNames == {"va_list", "__builtin_va_list", "__gnuc_va_list", "__va_list_tag"}

\* `struct __va_list_tag`, which the front-end declares itself, in no file.
VaListTag ==
    RecordDecl("StructDecl", <<"__va_list_tag">>, FALSE, TRUE,
               <<FieldDecl("gp_offset", ClangBuiltin("UInt")),
                 FieldDecl("reg_save_area", ClangPointer(ClangBuiltin("Void")))>>, <<>>)

\* `__builtin_va_list`: on x86-64 a typedef of `struct __va_list_tag [1]`.
BuiltinVaList ==
    ClangTypedef("__builtin_va_list",
                 ClangConstantArray(ClangElaborated(ClangRecord(VaListTag)), 1))

\* `va_list` as <stdarg.h> declares it, and `__gnuc_va_list`.
VaList == ClangTypedef("va_list", BuiltinVaList)
GnucVaList == ClangTypedef("__gnuc_va_list", BuiltinVaList)

\* `int vf(const char *x, va_list y);`
VaFunction(ty) ==
    FunctionDecl(<<"vf">>, FALSE, ClangInt,
                 Arguments(<<ClangPointer(Const(ClangBuiltin("CharS"))), ty>>),
                 <<"t.h">>)

\* The typedefs of <stdarg.h> in a header that is traversed or not, alone and
\* before a function that takes a va_list; functions and records that use the
\* types by each of their names; a typedef of va_list by another name.
VaListEntityLists ==
    {<<VaListTag, TypedefDecl(<<n>>, <<BuiltinVaList>>, loc)>> :
        n \in {"va_list", "__gnuc_va_list"}, loc \in Locations}
    \cup {<<VaListTag, TypedefDecl(<<"va_list">>, <<GnucVaList>>, loc), VaFunction(VaList)>> :
            loc \in Locations}
    \cup {<<VaListTag, VaFunction(ty)>> :
            ty \in {VaList, GnucVaList, BuiltinVaList,
                    ClangPointer(ClangElaborated(ClangRecord(VaListTag)))}}
    \cup {<<VaListTag, StructS(<<FieldDecl("ap", ty), IntField("n")>>)>> :
            ty \in {VaList, ClangPointer(ClangElaborated(ClangRecord(VaListTag)))}}
    \cup {<<VaListTag, TypedefDecl(<<"my_va_list">>, <<VaList>>, <<"t.h">>),
            VaFunction(ClangTypedef("my_va_list", VaList))>>}

VaListUnits == ExtractedUnits(VaListEntityLists)

InitVaList == InitWith(PlainConfigs, VaListUnits, PlainWinmds)

SpecVaList == InitVaList /\ [][Next]_vars

\* C27: the output has no type definition and no type reference named
\* va_list, __builtin_va_list, __gnuc_va_list or __va_list_tag.
C27_NoVaListInOutput ==
    file # <<>> =>
        /\ \A row \in Range(file[1]) : row.name \notin VaListNames
        /\ \A ref \in RowRefs(file[1]) : ref[2] \notin VaListNames

----------------------------------------------------------------------------
(* The order of the phases                                                 *)

\* The steps from one phase to the next, and the ways out of the pipeline.
PhaseSteps ==
    {<<"extract", "build">>, <<"build", "seed">>, <<"seed", "validate">>,
     <<"validate", "emit">>, <<"emit", "write">>, <<"write", "done">>,
     <<"extract", "failed">>, <<"extract", "panicked">>, <<"seed", "panicked">>,
     <<"validate", "failed">>}

\* One step of the pipeline in the order of the phases: extraction ends when
\* every partition is extracted, the build when every partition is
\* registered, the seeding when every import is read, and the step that ends
\* it drops the duplicates; partitions are written by extraction and
\* deduplication only, the registry by build and seed only, the output by
\* emission only.
PhasesInOrder ==
    /\ pc' # pc => <<pc, pc'>> \in PhaseSteps
    /\ (pc = "extract" /\ pc' = "build") => Len(partitions') = Len(cfg.partition)
    /\ (pc = "build" /\ pc' = "seed") => idx = Len(partitions)
    /\ (pc = "seed" /\ pc' = "validate") =>
            /\ idx > Len(cfg.type_import)
            /\ \A i \in DOMAIN partitions' :
                partitions'[i] = DedupPartition(partitions[i], registry)
    /\ partitions' # partitions =>
            pc = "extract" \/ (pc = "seed" /\ pc' = "validate")
    /\ registry' # registry => pc \in {"build", "seed"} /\ pc' \in {"build", "seed"}
    /\ file' # file => pc = "emit" /\ pc' = "write"

\* C28: every run goes through extraction, build, seeding, deduplication,
\* validation and emission in this order, and the registry is written only
\* while it is built and seeded, never once deduplication has started.
C28_PhasesInOrderRegistryFrozen == [][PhasesInOrder]_vars

\* A run over two partitions and an import that has emitted its output from
\* a registry that was built and seeded.
C28_Witness ==
    /\ pc = "write"
    /\ file # <<>>
    /\ Len(partitions) >= 2
    /\ cfg.type_import # <<>>
    /\ \E n \in DOMAIN registry : registry[n] = partitions[2].namespace
    /\ \E n \in DOMAIN registry :
        \A i \in DOMAIN partitions : registry[n] # partitions[i].namespace

----------------------------------------------------------------------------
(* The handles of the front-end                                            *)

\* C29: when the emitter starts, the index of the front-end and every
\* translation unit of the run have been released.
C29_FrontEndReleasedBeforeEmit ==
    pc = "emit" => ~clang.index /\ clang.units = {}

----------------------------------------------------------------------------
(* Failures of a run                                                       *)

\* C30: generate_from_config never panics, and when it fails it returns an
\* error that names the cause: an external winmd that cannot be read or
\* parsed and a wrapper source file that cannot be written are such errors.
C30_EveryFailureIsAnError ==
    /\ pc # "panicked"
    /\ pc = "failed" => error \in {"parse", "unresolved"}
    /\ error = "panic" => pc = "failed"

====
